---- MODULE Spec2Model ----
(***************************************************************************)
(* State-machine model of the Dispatch Companion plugin (the richer        *)
(* variant, src/unnamed/part_000; src/main.ts is the same code without the *)
(* streak / milestone features).                                           *)
(*                                                                         *)
(* Time is the wall clock in whole seconds since 1970-01-01 local time     *)
(* (Date.now() / 1000); calendar days are what moment().format(            *)
(* "YYYY-MM-DD") prints, encoded as the integer YYYYMMDD, whose numeric    *)
(* order is the lexicographic order of the printed strings.                *)
(***************************************************************************)
EXTENDS Integers, Sequences, FiniteSets, TLC

\* ---------------------------------------------------------------- bounds

\* The wall clock at plugin construction: 2023-12-30 23:58:00.
StartTime == 1703980680
\* Granularity of the clock in the status / queue specifications (seconds).
ClockStep == 60
\* Number of ClockStep advances the freshness specification allows.
MaxClockSteps == 6
\* Number of ClockStep advances the status polling specification allows.
MaxStatusClockSteps == 2
\* Number of ClockStep advances the queue specification allows.
MaxQueueClockSteps == 2

\* Number of day rollovers the streak specification allows.
MaxDays == 367
\* The streak specification may leave a day unrecorded in either list during
\* the first MissWindow days; later days are recorded in both.
MissWindow == 2
\* The streak-query specification: a persisted list of at most MaxDatesLen
\* days, taken from the WindowBack days before the start day up to the
\* WindowAhead-th day after it, and at most MaxQueryDays day rollovers.
MaxDatesLen == 4
WindowBack == 4
WindowAhead == 2
MaxQueryDays == 2

\* ------------------------------------------------------ program constants

SecondsPerDay == 24 * 60 * 60
\* "5 * 60 * 1000" ms, in the model's seconds.
FIVE_MINUTES == 5 * 60
DEFAULT_NOTE == "Ready for review"

\* last_publish: null in status.json
NULL_SLUG == "<null>"
\* absent value (null / undefined object); records compare unequal to it
NULL == [null |-> TRUE]
\* an argument that was not passed
UNDEFINED == "<undefined>"
\* file content that JSON.parse rejects
MALFORMED == [malformed |-> TRUE]

\* vault-relative paths of the blog files the commands act on
Paths == {"blog/a.md", "blog/b.md"}
\* the `note` argument of markReady: omitted, empty, or a text
NoteArgs == {UNDEFINED, "", "final pass", "needs edit"}

\* ------------------------------------------------------------- calendar

\* Days since 1970-01-01 of the civil date y-m-d (proleptic Gregorian).
DaysFromCivil(y, m, d) ==
    LET yy  == IF m <= 2 THEN y - 1 ELSE y
        era == yy \div 400
        yoe == yy - era * 400
        mp  == IF m > 2 THEN m - 3 ELSE m + 9
        doy == (153 * mp + 2) \div 5 + d - 1
        doe == yoe * 365 + yoe \div 4 - yoe \div 100 + doy
    IN  era * 146097 + doe - 719468

\* moment().format("YYYY-MM-DD") of day number z, as the integer YYYYMMDD.
FormatDay(z) ==
    LET zz  == z + 719468
        era == zz \div 146097
        doe == zz - era * 146097
        yoe == (doe - doe \div 1460 + doe \div 36524 - doe \div 146096) \div 365
        doy == doe - (365 * yoe + yoe \div 4 - yoe \div 100)
        mp  == (5 * doy + 2) \div 153
        d   == doy - (153 * mp + 2) \div 5 + 1
        m   == IF mp < 10 THEN mp + 3 ELSE mp - 9
        y   == yoe + era * 400 + (IF m <= 2 THEN 1 ELSE 0)
    IN  y * 10000 + m * 100 + d

\* moment(dateStr, "YYYY-MM-DD") as a day number.
ParseDay(s) == DaysFromCivil(s \div 10000, (s \div 100) % 100, s % 100)

\* ------------------------------------------------------------ variables

VARIABLES
    now,                     \* wall clock, seconds
    statusFile,              \* vault: content of .dispatch/status.json, or NULL
    dispatchFolder,          \* vault: the folder .dispatch exists
    queueFile,               \* vault: content of .dispatch/queue.json, or NULL
    dataFile,                \* the plugin's data.json (loadData / saveData), or NULL
    fileSize,                \* vault: stat.size of each blog markdown file
    pc,                      \* plugin lifecycle: position inside onload, or "running"
    settings,                \* plugin field settings
    dispatchStatus,          \* plugin field dispatchStatus
    dispatchQueue,           \* plugin field dispatchQueue
    streakData,              \* plugin field streakData
    sessionStartWordCount,   \* plugin field sessionStartWordCount
    sessionWordsWritten,     \* plugin field sessionWordsWritten
    lastMilestoneCelebrated, \* plugin field lastMilestoneCelebrated
    statusReadPending,       \* the loadDispatchStatus calls that await vault.read: how many
    streakSavesPending,      \* the saveStreakData calls in progress, oldest first
    calls,                   \* observation: the last two handler calls, oldest first
    lastLoad,                \* observation: how the last loadDispatchStatus call ended, and
                             \*   the last_publish of the last snapshot read by this instance
    celebrated,              \* observation: the milestones celebrated in this session
    recorded,                \* observation: every day appended to each streak list
    vaultFiles,              \* vault: the blog markdown files, with stat.mtime and cached metadata
    dailyWordCountCache,     \* plugin field dailyWordCountCache
    dailyWordCountDate,      \* plugin field dailyWordCountDate
    statusBarText,           \* the text of statusBarEl, or NULL when there is no element
    postFolders,             \* vault: the folders under the blog folder
    debounceTimers,          \* the pending timers of debouncedStatusUpdate: the times they are due
    fileEvents,              \* observation: the file events and the recomputation that followed
    onThisDayTimer,          \* the timeouts set at the end of onload: this instance's
                             \*   ("none", "set" or "due") and those of unloaded instances
    queueSaves,              \* the saveDispatchQueue calls in progress or ended, oldest first
    registered,              \* the vault event handlers registered with registerEvent
    postCreates,             \* the createBlogPostFromModal calls in progress, oldest first
    settingsSaves            \* the saveSettings calls in progress, oldest first

envVars    == <<now, statusFile, fileSize>>
diskVars   == <<dispatchFolder, queueFile, dataFile>>
pluginVars == <<pc, settings, dispatchStatus, dispatchQueue, streakData,
                sessionStartWordCount, sessionWordsWritten, lastMilestoneCelebrated>>
asyncVars  == <<statusReadPending, streakSavesPending>>
obsVars    == <<calls, lastLoad, celebrated, recorded>>
metricVars == <<vaultFiles, dailyWordCountCache, dailyWordCountDate, statusBarText>>
sideVars   == <<postFolders, debounceTimers, fileEvents, onThisDayTimer, queueSaves,
                registered, postCreates, settingsSaves>>
vars == <<envVars, diskVars, pluginVars, asyncVars, obsVars, metricVars, sideVars>>

\* moment().format("YYYY-MM-DD")
Today == FormatDay(now \div SecondsPerDay)

\* ------------------------------------------------------------- helpers

Includes(seq, x) == \E i \in 1..Len(seq) : seq[i] = x

Count(seq, x) == Cardinality({i \in 1..Len(seq) : seq[i] = x})

\* Array.prototype.slice(-n)
SliceLast(seq, n) ==
    IF Len(seq) <= n THEN seq ELSE SubSeq(seq, Len(seq) - n + 1, Len(seq))

\* the observation log keeps the last two calls
Logged(log, call) == IF Len(log) < 2 THEN Append(log, call) ELSE <<log[2], call>>

\* ------------------------------------------------------------- settings

DEFAULT_SETTINGS ==
    [enableStreaks |-> TRUE, celebrateMilestones |-> TRUE,
     sessionWordCount |-> TRUE,
     showStatusBar |-> TRUE, statusBarFormat |-> "both", wordCountGoal |-> 0,
     showOnThisDay |-> TRUE]

\* Object.assign({}, DEFAULT_SETTINGS, await this.loadData()): every key of
\* data.json, and the default of every key it lacks
LoadSettings(data) ==
    IF data = NULL THEN DEFAULT_SETTINGS
    ELSE [k \in (DOMAIN DEFAULT_SETTINGS) \cup (DOMAIN data) |->
             IF k \in DOMAIN data THEN data[k] ELSE DEFAULT_SETTINGS[k]]

\* ---------------------------------------------------------- publish queue

\* notes: {}
EmptyNotes == [q \in {} |-> ""]

EmptyQueue(t) == [updated_at |-> t, ready |-> <<>>, notes |-> EmptyNotes]

\* notes[path] = text
SetNote(notes, path, text) ==
    [q \in (DOMAIN notes) \cup {path} |-> IF q = path THEN text ELSE notes[q]]

\* delete notes[path]
DeleteNote(notes, path) == [q \in (DOMAIN notes) \ {path} |-> notes[q]]

\* if (note): undefined and "" are falsy
Truthy(note) == note # UNDEFINED /\ note # ""

\* markReady without the includes() test: the path is pushed on every call
MarkReadyQueuePushAlways(q, path, note, t) ==
    LET q0 == IF q = NULL THEN EmptyQueue(t) ELSE q
    IN  [q0 EXCEPT
            !.ready = Append(@, path),
            !.notes = SetNote(@, path, IF Truthy(note) THEN note ELSE DEFAULT_NOTE)]

\* markReady without the else branch: no note is stored when none is given
MarkReadyQueueNoDefault(q, path, note, t) ==
    LET q0 == IF q = NULL THEN EmptyQueue(t) ELSE q
    IN  [q0 EXCEPT
            !.ready = IF Includes(q0.ready, path) THEN @ ELSE Append(@, path),
            !.notes = IF Truthy(note) THEN SetNote(@, path, note) ELSE @]

\* markReady up to its await: the queue after the in-memory mutation
MarkReadyQueue(q, path, note, t) ==
    LET q0 == IF q = NULL THEN EmptyQueue(t) ELSE q
    IN  [q0 EXCEPT
            !.ready = IF Includes(q0.ready, path) THEN @ ELSE Append(@, path),
            !.notes = SetNote(@, path, IF Truthy(note) THEN note ELSE DEFAULT_NOTE)]

\* unmarkReady without `delete notes[path]`
UnmarkReadyQueueKeepNote(q, path) ==
    [q EXCEPT !.ready = SelectSeq(@, LAMBDA p : p # path)]

\* unmarkReady with the filter test inverted: (p) => p === file.path
UnmarkReadyQueueInverted(q, path) ==
    [q EXCEPT !.ready = SelectSeq(@, LAMBDA p : p = path),
              !.notes = DeleteNote(@, path)]

\* unmarkReady up to its await
UnmarkReadyQueue(q, path) ==
    [q EXCEPT !.ready = SelectSeq(@, LAMBDA p : p # path),
              !.notes = DeleteNote(@, path)]

\* saveDispatchQueue without the updated_at assignment
NotStamped(q, t) == q

\* saveDispatchQueue: stamps updated_at; the stamped queue is what is written
Stamped(q, t) == [q EXCEPT !.updated_at = t]

\* JSON.stringify(queue) / JSON.parse(content)
Stringify(q) == [json |-> q]
ParseJSON(content) == content.json

\* loadDispatchQueue
LoadDispatchQueue(content, t) ==
    IF content = NULL \/ content = MALFORMED THEN EmptyQueue(t)
    ELSE ParseJSON(content)

isFileReady(path) ==
    IF dispatchQueue = NULL THEN FALSE ELSE Includes(dispatchQueue.ready, path)

QueueView(q) == IF q = NULL THEN NULL ELSE [ready |-> q.ready, notes |-> q.notes]

\* no timeout of onload's window.setTimeout(..., 3000) is pending
NoTimeouts == [own |-> "none", old |-> <<>>]

\* the timeouts after the clock advanced by a step: all of them are due
TimeoutsDue(timers) ==
    [own |-> IF timers.own = "set" THEN "due" ELSE timers.own,
     old |-> [i \in 1..Len(timers.old) |-> [timers.old[i] EXCEPT !.at = "due"]]]

\* the timeout of debouncedStatusUpdate, in seconds: debounce(..., 1000, true)
DEBOUNCE_TIMEOUT == 1

\* No file event is waiting for a recomputation. `waiting` counts the events
\* since the last recomputation (0, 1, or 2 for several), `last` is the time
\* of the latest of them, `served` is `waiting` as the last recomputation
\* found it.
NoEvents == [waiting |-> 0, last |-> 0, served |-> 0]

\* a debounce that sets a timer on every call and never clears one
DebouncedCallTimerEach(timers, t) == Append(timers, t + DEBOUNCE_TIMEOUT)

\* a debounce whose running timer is left as it is (resetTimer false)
DebouncedCallNoReset(timers, t) ==
    IF timers = <<>> THEN <<t + DEBOUNCE_TIMEOUT>> ELSE timers

\* A call of the debounced function at time t: with resetTimer the timer
\* that is pending is replaced by one due a full timeout after t.
DebouncedCall(timers, t) == <<t + DEBOUNCE_TIMEOUT>>

\* a timer of debouncedStatusUpdate is due and has not run
TimerDue == \E i \in 1..Len(debounceTimers) : debounceTimers[i] <= now

\* a saveDispatchQueue call awaits a vault operation
QueueSavePending ==
    \E i \in 1..Len(queueSaves) : queueSaves[i].at \in {"createFolder", "write"}

\* the handler of the vault's modify, create and delete events
debouncedStatusUpdate ==
    /\ debounceTimers' = DebouncedCall(debounceTimers, now)
    /\ fileEvents' = [fileEvents EXCEPT
                          !.waiting = IF @ = 0 THEN 1 ELSE 2, !.last = now]

\* The vault raises a create, modify or delete event: onload registers
\* debouncedStatusUpdate for the three of them, for every path, once
\* loadDispatchQueue has returned; before that, and after onunload, no handler
\* is called.
vaultEvent ==
    IF "debounce" \in registered THEN debouncedStatusUpdate
    ELSE UNCHANGED <<debounceTimers, fileEvents>>

\* The commands, the file menu and the click handler of the status bar that
\* onload adds before it awaits loadStreakData() can be used from then on.
CommandsAdded == pc \in {"queue", "streak", "running"}

\* saveDispatchQueue up to its first await, with `content` stringified: with
\* no .dispatch folder it awaits createFolder, else it awaits the write, a
\* modify of the file it found or a create.
SaveCall(content, folder, file) ==
    IF ~folder
    THEN [content |-> content, at |-> "createFolder", kind |-> "none"]
    ELSE [content |-> content, at |-> "write",
          kind |-> IF file # NULL THEN "modify" ELSE "create"]

\* Most markReady / unmarkReady calls in progress at a time.
MaxQueueCalls == 2

\* markReady up to the first await of its saveDispatchQueue: the in-memory
\* mutation, the stamp, and the first vault call. queueSaves holds the calls
\* made since no save was in progress.
markReady(path, note) ==
    /\ CommandsAdded
    /\ LET q == Stamped(MarkReadyQueue(dispatchQueue, path, note, now), now)
           saves == IF QueueSavePending THEN queueSaves ELSE <<>>
       IN  /\ Len(saves) < MaxQueueCalls
           /\ dispatchQueue' = q
           /\ queueSaves' = Append(saves,
                                   SaveCall(Stringify(q), dispatchFolder, queueFile))
    /\ calls' = Logged(calls, [op |-> "markReady", path |-> path, note |-> note,
                               before |-> QueueView(dispatchQueue)])
    /\ UNCHANGED <<envVars, diskVars, pc, settings, dispatchStatus, streakData,
                   sessionStartWordCount, sessionWordsWritten,
                   lastMilestoneCelebrated, asyncVars, lastLoad, celebrated, recorded>>
    /\ UNCHANGED metricVars
    /\ UNCHANGED <<postFolders, debounceTimers, fileEvents, onThisDayTimer,
                   registered, postCreates, settingsSaves>>

\* unmarkReady up to the first await of its saveDispatchQueue; with no queue
\* it returns at once
unmarkReady(path) ==
    /\ CommandsAdded
    /\ IF dispatchQueue = NULL
       THEN UNCHANGED <<dispatchQueue, queueSaves>>
       ELSE LET q == Stamped(UnmarkReadyQueue(dispatchQueue, path), now)
                saves == IF QueueSavePending THEN queueSaves ELSE <<>>
            IN  /\ Len(saves) < MaxQueueCalls
                /\ dispatchQueue' = q
                /\ queueSaves' = Append(saves,
                                        SaveCall(Stringify(q), dispatchFolder, queueFile))
    /\ calls' = Logged(calls, [op |-> "unmarkReady", path |-> path,
                               before |-> QueueView(dispatchQueue)])
    /\ UNCHANGED <<envVars, diskVars, pc, settings, dispatchStatus, streakData,
                   sessionStartWordCount, sessionWordsWritten,
                   lastMilestoneCelebrated, asyncVars, lastLoad, celebrated, recorded>>
    /\ UNCHANGED metricVars
    /\ UNCHANGED <<postFolders, debounceTimers, fileEvents, onThisDayTimer,
                   registered, postCreates, settingsSaves>>

\* The createFolder(".dispatch") a save awaits completes, and the save goes
\* on to its write. When another call has created the folder in between, the
\* vault either rejects ("Folder already exists.", which ends markReady with
\* that error) or resolves. The vault may raise its create event for the new
\* folder (`raised`); the handler has no filter on the kind of file.
createFolderDone ==
    /\ \E i \in 1..Len(queueSaves), ok \in BOOLEAN, raised \in BOOLEAN :
          /\ queueSaves[i].at = "createFolder"
          /\ ok \/ dispatchFolder
          /\ raised => (ok /\ ~dispatchFolder)
          /\ IF ok
             THEN /\ dispatchFolder' = TRUE
                  /\ queueSaves' = [queueSaves EXCEPT ![i] =
                         SaveCall(@.content, TRUE, queueFile)]
             ELSE /\ queueSaves' = [queueSaves EXCEPT ![i].at = "failed"]
                  /\ UNCHANGED dispatchFolder
          /\ IF raised THEN vaultEvent
             ELSE UNCHANGED <<debounceTimers, fileEvents>>
    /\ UNCHANGED <<envVars, queueFile, dataFile, pluginVars, asyncVars, obsVars>>
    /\ UNCHANGED metricVars
    /\ UNCHANGED <<postFolders, onThisDayTimer, registered, postCreates,
                   settingsSaves>>

\* The vault.modify or vault.create a save awaits completes; the writes in
\* progress complete in any order. A create that finds the file written by
\* another call in between either rejects ("File already exists.") or
\* replaces the content. A completed write raises the vault's create or modify
\* event, which calls debouncedStatusUpdate.
writeQueueDone ==
    /\ \E i \in 1..Len(queueSaves), ok \in BOOLEAN :
          /\ queueSaves[i].at = "write"
          /\ ok \/ (queueSaves[i].kind = "create" /\ queueFile # NULL)
          /\ IF ok
             THEN /\ queueFile' = queueSaves[i].content
                  /\ queueSaves' = [queueSaves EXCEPT ![i].at = "done"]
                  /\ vaultEvent
             ELSE /\ queueSaves' = [queueSaves EXCEPT ![i].at = "failed"]
                  /\ UNCHANGED <<queueFile, debounceTimers, fileEvents>>
    /\ UNCHANGED <<envVars, dispatchFolder, dataFile, pluginVars, asyncVars, obsVars>>
    /\ UNCHANGED metricVars
    /\ UNCHANGED <<postFolders, onThisDayTimer, registered, postCreates,
                   settingsSaves>>

\* ---------------------------------------------------------------- streaks

MAX_STREAK_DAYS == 365

EmptyStreak == [dates |-> <<>>, publishDates |-> <<>>]

\* the list truncated with slice(0, 365): the oldest days are kept
RecordDayKeepOldest(list, today) ==
    IF Includes(list, today) THEN list
    ELSE LET pushed == Append(list, today)
         IN  IF Len(pushed) > MAX_STREAK_DAYS
             THEN SubSeq(pushed, 1, MAX_STREAK_DAYS) ELSE pushed

\* the list after recordWritingDay / recordPublishDay ran on day `today`
RecordDay(list, today) ==
    IF Includes(list, today) THEN list
    ELSE SliceLast(Append(list, today), MAX_STREAK_DAYS)

\* the observation of it: the days ever appended, never truncated
RecordedDay(hist, list, today) ==
    IF Includes(list, today) THEN hist ELSE Append(hist, today)

\* saveStreakData() is called (and not awaited) only when a day was appended;
\* the call awaits loadData() first
SavesAfter(saves, list, today) ==
    IF Includes(list, today) THEN saves
    ELSE Append(saves, [at |-> "loadData", content |-> NULL])

\* recordWritingDay(), as called by createBlogPostFromModal
recordWritingDay ==
    /\ pc = "running"
    /\ settings.enableStreaks
    /\ streakData' = [streakData EXCEPT !.dates = RecordDay(@, Today)]
    /\ recorded' = [recorded EXCEPT !.dates = RecordedDay(@, streakData.dates, Today)]
    /\ streakSavesPending' = SavesAfter(streakSavesPending, streakData.dates, Today)
    /\ UNCHANGED <<envVars, diskVars, pc, settings, dispatchStatus, dispatchQueue,
                   sessionStartWordCount, sessionWordsWritten,
                   lastMilestoneCelebrated, statusReadPending, calls, lastLoad, celebrated>>
    /\ UNCHANGED metricVars
    /\ UNCHANGED sideVars

\* recordPublishDay(), the state change of celebratePublish
recordPublishDay ==
    /\ pc = "running"
    /\ settings.enableStreaks
    /\ streakData' = [streakData EXCEPT !.publishDates = RecordDay(@, Today)]
    /\ recorded' = [recorded EXCEPT
                       !.publishDates = RecordedDay(@, streakData.publishDates, Today)]
    /\ streakSavesPending' =
           SavesAfter(streakSavesPending, streakData.publishDates, Today)
    /\ UNCHANGED <<envVars, diskVars, pc, settings, dispatchStatus, dispatchQueue,
                   sessionStartWordCount, sessionWordsWritten,
                   lastMilestoneCelebrated, statusReadPending, calls, lastLoad, celebrated>>
    /\ UNCHANGED metricVars
    /\ UNCHANGED sideVars

\* { ...data, ...this.settings, streakData: this.streakData }
SavedData(data, st, streak) ==
    [k \in (IF data = NULL THEN {} ELSE DOMAIN data)
               \cup (DOMAIN st) \cup {"streakData"} |->
        IF k = "streakData" THEN streak
        ELSE IF k \in DOMAIN st THEN st[k]
        ELSE data[k]]

\* saveStreakData after its loadData() resolved: the object to write,
\* {...data, ...this.settings, streakData: this.streakData}, is built from the
\* fields as they are now and handed to saveData.
saveStreakDataLoaded ==
    /\ \E i \in 1..Len(streakSavesPending) :
          /\ streakSavesPending[i].at = "loadData"
          /\ streakSavesPending' = [streakSavesPending EXCEPT ![i] =
                 [at |-> "saveData",
                  content |-> SavedData(dataFile, settings, streakData)]]
    /\ UNCHANGED <<envVars, diskVars, pluginVars, statusReadPending, obsVars>>
    /\ UNCHANGED metricVars
    /\ UNCHANGED sideVars

\* the saveData of a saveStreakData call completes: data.json is replaced by
\* the object built when the call's loadData resolved; the writes in progress
\* complete in any order
saveStreakDataWrite ==
    /\ \E i \in 1..Len(streakSavesPending) :
          /\ streakSavesPending[i].at = "saveData"
          /\ dataFile' = streakSavesPending[i].content
          /\ streakSavesPending' =
                 SubSeq(streakSavesPending, 1, i - 1)
                     \o SubSeq(streakSavesPending, i + 1, Len(streakSavesPending))
    /\ UNCHANGED <<envVars, dispatchFolder, queueFile, pluginVars,
                   statusReadPending, obsVars>>
    /\ UNCHANGED metricVars
    /\ UNCHANGED sideVars

\* getWritingStreak without the sort: the list is walked as stored
getWritingStreakUnsorted(dates, t) ==
    LET RECURSIVE Walk(_, _, _)
        Walk(i, expected, streak) ==
            IF i > Len(dates) THEN streak
            ELSE LET date == ParseDay(dates[Len(dates) + 1 - i])
                 IN  IF date = expected THEN Walk(i + 1, expected - 1, streak + 1)
                     ELSE IF date < expected THEN streak
                     ELSE Walk(i + 1, expected, streak)
    IN  Walk(1, t \div SecondsPerDay, 0)

\* getWritingStreak that starts at yesterday when today has no entry
getWritingStreakFromYesterday(dates, t) ==
    LET RECURSIVE Run(_)
        Run(day) == IF Includes(dates, FormatDay(day)) THEN 1 + Run(day - 1) ELSE 0
        today == t \div SecondsPerDay
    IN  IF Includes(dates, FormatDay(today)) THEN Run(today) ELSE Run(today - 1)

\* [...dates].sort().reverse(): the dates in descending order
RECURSIVE SortDescending(_)
SortDescending(seq) ==
    IF Len(seq) = 0 THEN <<>>
    ELSE LET mx   == CHOOSE i \in 1..Len(seq) : \A j \in 1..Len(seq) : seq[j] <= seq[i]
             rest == [k \in 1..(Len(seq) - 1) |-> IF k < mx THEN seq[k] ELSE seq[k + 1]]
         IN  <<seq[mx]>> \o SortDescending(rest)

\* the loop of getWritingStreak from position i on: `expected` is a day number
RECURSIVE StreakFrom(_, _, _, _)
StreakFrom(sorted, i, expected, streak) ==
    IF i > Len(sorted) THEN streak
    ELSE LET date == ParseDay(sorted[i])
         IN  IF date = expected
             THEN StreakFrom(sorted, i + 1, expected - 1, streak + 1)
             ELSE IF date < expected THEN streak
             ELSE StreakFrom(sorted, i + 1, expected, streak)

getWritingStreak(dates, t) ==
    StreakFrom(SortDescending(dates), 1, t \div SecondsPerDay, 0)

\* moment(d).startOf("week"), as a day number: weeks start on Sunday in
\* moment's default locale (day 0, 1970-01-01, was a Thursday)
StartOfWeek(day) == day - ((day + 4) % 7)

\* format("WW"): the ISO week number, the week of the year of the Thursday
\* in the Monday-to-Sunday week of the day
IsoWeek(day) ==
    LET thursday == day - ((day + 3) % 7) + 3
        year     == FormatDay(thursday) \div 10000
    IN  (thursday - DaysFromCivil(year, 1, 1)) \div 7 + 1

\* format("YYYY-WW"): the calendar year and the ISO week number, as YYYYWW
FormatYearWeek(day) == (FormatDay(day) \div 10000) * 100 + IsoWeek(day)

\* getPublishStreak: the loop over at most 52 weeks back from the current one
getPublishStreak(publishDates, t) ==
    LET weekSet == {FormatYearWeek(StartOfWeek(ParseDay(publishDates[i])))
                       : i \in 1..Len(publishDates)}
        current == StartOfWeek(t \div SecondsPerDay)
        RECURSIVE Loop(_)
        Loop(i) == IF i < 52 /\ FormatYearWeek(current - 7 * i) \in weekSet
                   THEN 1 + Loop(i + 1) ELSE 0
    IN  IF Len(publishDates) = 0 THEN 0 ELSE Loop(0)

\* ---------------------------------------------------------- status polling

Snapshot(t, slug, words) ==
    [updated_at |-> t, last_publish |-> slug, files |-> <<>>,
     stats |-> [drafts |-> 3, published |-> 7, total_words |-> words]]

\* new Date(updated_at).getTime(), in seconds
GetTime(updated_at) == updated_at

isDispatchFresh(status, t) ==
    IF status = NULL THEN FALSE
    ELSE LET updatedAt      == GetTime(status.updated_at)
             fiveMinutesAgo == t - FIVE_MINUTES
         IN  updatedAt > fiveMinutesAgo

\* the condition guarding celebratePublish in loadDispatchStatus
PublishDetected(held, new, st) ==
    /\ new.last_publish # NULL_SLUG
    /\ new.last_publish # ""
    /\ st.enableStreaks
    /\ (held = NULL \/ held.last_publish # new.last_publish)

\* the tail with the assignment moved before the detection
ReplaceThenDetect(held, new, st) ==
    [signal       |-> PublishDetected(new, new, st),
     heldAtSignal |-> new,
     held         |-> new]

\* The tail of loadDispatchStatus after a successful JSON.parse: whether
\* celebratePublish is called, the value the field dispatchStatus has while it
\* runs, and the value the field has at the end.
DetectAndReplace(held, new, st) ==
    [signal       |-> PublishDetected(held, new, st),
     heldAtSignal |-> held,
     held         |-> new]

\* -------------------------------------------------------------- metrics

\* dailyWordCountDate = "": no day is cached
NO_DATE == 0

\* statusBarEl.setText("")
EMPTY_TEXT == [empty |-> TRUE]

\* front matter of a file without a published_url and without a date
\* Values of the front-matter field `date`: the key is missing, the empty
\* string, a text that is no date, or the text "YYYY-MM-DD" held as its
\* three numbers.
NoDateField == [undefined |-> TRUE]
EmptyDate == [text |-> ""]
InvalidDate == [text |-> "soon"]
DateString(y, m, d) == [y |-> y, m |-> m, d |-> d]

NoFrontmatter == [published_url |-> UNDEFINED, date |-> NoDateField]

\* a blog file written at time t whose metadata cache has no sections
NewFile(t) == [mtime |-> t, frontmatter |-> NoFrontmatter, sections |-> <<>>]

\* getMarkdownFiles() filtered by the blog folder: every path of Paths exists
NewFiles(t) == [f \in Paths |-> NewFile(t)]

\* the scan counting every file that has the published_url key
ScanCountsByKey(fs) ==
    LET pub == {f \in DOMAIN fs : fs[f].frontmatter.published_url # UNDEFINED}
    IN  [drafts |-> Cardinality((DOMAIN fs) \ pub),
         published |-> Cardinality(pub), totalWords |-> 0]

\* The fallback scan of updateStatusBar and of the dashboard panel: a file
\* whose front matter has a truthy published_url is published, any other a draft.
ScanCounts(fs) ==
    LET pub == {f \in DOMAIN fs : Truthy(fs[f].frontmatter.published_url)}
    IN  [drafts |-> Cardinality((DOMAIN fs) \ pub),
         published |-> Cardinality(pub), totalWords |-> 0]

\* the counts taken from the scan whenever there are local files
ComputeCountsScanFirst(status, fs, t) ==
    IF status # NULL /\ isDispatchFresh(status, t) /\ DOMAIN fs = {}
    THEN [drafts |-> status.stats.drafts, published |-> status.stats.published,
          totalWords |-> status.stats.total_words]
    ELSE ScanCounts(fs)

\* drafts, published and totalWords as updateStatusBar and the dashboard panel
\* compute them: the snapshot's stats when it is held and fresh, else the scan
ComputeCounts(status, fs, t) ==
    IF status # NULL /\ isDispatchFresh(status, t)
    THEN [drafts |-> status.stats.drafts, published |-> status.stats.published,
          totalWords |-> status.stats.total_words]
    ELSE ScanCounts(fs)

\* file.stat.mtime >= todayStart && file.stat.mtime <= todayEnd
ModifiedToday(file, t) ==
    LET todayStart == (t \div SecondsPerDay) * SecondsPerDay
        todayEnd   == todayStart + SecondsPerDay - 1
    IN  file.mtime >= todayStart /\ file.mtime <= todayEnd

\* the words of the paragraph and heading sections: 10 for every line
RECURSIVE SectionWords(_, _)
SectionWords(sections, i) ==
    IF i > Len(sections) THEN 0
    ELSE (IF sections[i].type \in {"paragraph", "heading"}
          THEN (sections[i].endLine - sections[i].startLine + 1) * 10
          ELSE 0) + SectionWords(sections, i + 1)

\* the first loop of getDailyWordCount: the files modified today
RECURSIVE ApproxWords(_, _, _)
ApproxWords(fs, todo, t) ==
    IF todo = {} THEN 0
    ELSE LET f == CHOOSE x \in todo : TRUE
         IN  (IF ModifiedToday(fs[f], t) THEN SectionWords(fs[f].sections, 1) ELSE 0)
             + ApproxWords(fs, todo \ {f}, t)

\* the second loop of getDailyWordCount: the snapshot's files that are vault
\* files modified today
RECURSIVE SnapshotWords(_, _, _, _)
SnapshotWords(sfs, i, fs, t) ==
    IF i > Len(sfs) THEN 0
    ELSE (IF sfs[i].path \in DOMAIN fs /\ ModifiedToday(fs[sfs[i].path], t)
          THEN sfs[i].word_count ELSE 0) + SnapshotWords(sfs, i + 1, fs, t)


\* getDailyWordCount past the cache test
RecomputeDailyWords(status, fs, t) ==
    IF status # NULL THEN SnapshotWords(status.files, 1, fs, t)
    ELSE ApproxWords(fs, DOMAIN fs, t)

\* getDailyWordCount that recomputes on every call
GetDailyWordCountUncached(date, cache, status, fs, t) ==
    LET wordCount == RecomputeDailyWords(status, fs, t)
    IN  [value |-> wordCount, cache |-> wordCount,
         date |-> FormatDay(t \div SecondsPerDay), recomputed |-> TRUE]

\* getDailyWordCount: the value returned and the cache fields afterwards
GetDailyWordCount(date, cache, status, fs, t) ==
    LET today == FormatDay(t \div SecondsPerDay)
    IN  IF date = today
        THEN [value |-> cache, cache |-> cache, date |-> date, recomputed |-> FALSE]
        ELSE LET wordCount == RecomputeDailyWords(status, fs, t)
             IN  [value |-> wordCount, cache |-> wordCount, date |-> today,
                  recomputed |-> TRUE]

\* the text of the status bar in the format of the settings
StatusText(st, fresh, counts, todayWords) ==
    IF st.statusBarFormat = "counts"
    THEN [prefix |-> fresh, drafts |-> counts.drafts, live |-> counts.published]
    ELSE IF st.statusBarFormat = "words"
    THEN [prefix |-> fresh, wordsToday |-> todayWords, goal |-> st.wordCountGoal]
    ELSE [prefix |-> fresh, drafts |-> counts.drafts, wToday |-> todayWords]

\* the tooltip: the total words line is there only with a snapshot held
Tooltip(status, fs, counts) ==
    [drafts |-> counts.drafts, published |-> counts.published,
     total |-> Cardinality(DOMAIN fs),
     showsTotalWords |-> status # NULL, totalWords |-> counts.totalWords]

\* updateStatusBar: the status bar element and the cache fields afterwards,
\* and what the call did
UpdateStatusBar(bar, st, status, fs, date, cache, t) ==
    IF bar = NULL \/ ~st.showStatusBar
    THEN [bar |-> bar, cache |-> cache, date |-> date, shown |-> FALSE,
          counts |-> NULL, recomputed |-> FALSE]
    ELSE IF Cardinality(DOMAIN fs) = 0
    THEN [bar |-> [bar EXCEPT !.text = EMPTY_TEXT], cache |-> cache, date |-> date,
          shown |-> FALSE, counts |-> NULL, recomputed |-> FALSE]
    ELSE LET counts == ComputeCounts(status, fs, t)
             daily  == GetDailyWordCount(date, cache, status, fs, t)
             fresh  == isDispatchFresh(status, t)
         IN  [bar |-> [text |-> StatusText(st, fresh, counts, daily.value),
                       tooltip |-> Tooltip(status, fs, counts)],
              cache |-> daily.cache, date |-> daily.date, shown |-> TRUE,
              counts |-> counts, recomputed |-> daily.recomputed]

\* a status bar item newly added by addStatusBarItem()
NewStatusBar == [text |-> EMPTY_TEXT, tooltip |-> NULL]

\* loadDispatchStatus up to its await: the lookup of .dispatch/status.json.
\* With no file the call is over and nothing was assigned.
StartLoadDispatchStatus ==
    /\ statusReadPending' = statusReadPending + (IF statusFile # NULL THEN 1 ELSE 0)
    /\ lastLoad' = IF statusFile # NULL THEN lastLoad
                   ELSE [outcome |-> "absent", held |-> dispatchStatus # NULL,
                         signal |-> FALSE, sawOld |-> FALSE,
                         read |-> IF lastLoad = NULL THEN "<none>" ELSE lastLoad.read]

\* the state change of an updateStatusBar() call
updateStatusBar ==
    LET r == UpdateStatusBar(statusBarText, settings, dispatchStatus, vaultFiles,
                             dailyWordCountDate, dailyWordCountCache, now)
    IN  /\ statusBarText' = r.bar
        /\ dailyWordCountCache' = r.cache
        /\ dailyWordCountDate' = r.date

\* a timer of debouncedStatusUpdate runs its callback, updateStatusBar()
debouncedStatusUpdateRun ==
    /\ \E i \in 1..Len(debounceTimers) :
          /\ debounceTimers[i] <= now
          /\ debounceTimers' = SubSeq(debounceTimers, 1, i - 1)
                                   \o SubSeq(debounceTimers, i + 1, Len(debounceTimers))
    /\ fileEvents' = [waiting |-> 0, last |-> 0, served |-> fileEvents.waiting]
    /\ updateStatusBar
    /\ UNCHANGED <<envVars, diskVars, pluginVars, asyncVars, obsVars, vaultFiles,
                   postFolders, onThisDayTimer, queueSaves, registered,
                   postCreates, settingsSaves>>

\* Most loadDispatchStatus calls awaiting their read at a time.
MaxStatusReads == 2

\* The 30 s poll. The interval is set in the synchronous code that follows
\* await loadDispatchQueue(), so a tick may come while onload awaits
\* loadStreakData(), and it may come while the read of an earlier tick is
\* pending. loadDispatchStatus() is not awaited, so updateStatusBar() runs
\* before the read of status.json resolves.
pollTick ==
    /\ pc \in {"queue", "streak", "running"}
    /\ statusReadPending + (IF statusFile # NULL THEN 1 ELSE 0) <= MaxStatusReads
    /\ StartLoadDispatchStatus
    /\ updateStatusBar
    /\ UNCHANGED <<envVars, diskVars, pluginVars, streakSavesPending, calls, celebrated, recorded>>
    /\ UNCHANGED vaultFiles
    /\ UNCHANGED sideVars

\* loadDispatchStatus after vault.read resolved or rejected; the reads in
\* progress resolve in any order, each with the file as it is by then
finishLoadDispatchStatus ==
    /\ statusReadPending > 0
    /\ statusReadPending' = statusReadPending - 1
    /\ pc' = IF pc = "statusRead" THEN "status" ELSE pc
    /\ IF statusFile = NULL \/ statusFile = MALFORMED
       THEN /\ dispatchStatus' = NULL
            /\ lastLoad' = [outcome |-> "failed", held |-> dispatchStatus # NULL,
                            signal |-> FALSE, sawOld |-> FALSE,
                            read |-> IF lastLoad = NULL THEN "<none>" ELSE lastLoad.read]
            /\ UNCHANGED <<streakData, streakSavesPending, recorded>>
       ELSE LET new == ParseJSON(statusFile)
                r   == DetectAndReplace(dispatchStatus, new, settings)
            IN  /\ dispatchStatus' = r.held
                /\ lastLoad' = [outcome |-> "ok", held |-> dispatchStatus # NULL,
                                signal |-> r.signal,
                                sawOld |-> r.signal /\ r.heldAtSignal = dispatchStatus,
                                read |-> new.last_publish]
                /\ IF r.signal
                   THEN /\ streakData' = [streakData EXCEPT
                               !.publishDates = RecordDay(@, Today)]
                        /\ recorded' = [recorded EXCEPT !.publishDates =
                               RecordedDay(@, streakData.publishDates, Today)]
                        /\ streakSavesPending' = SavesAfter(streakSavesPending,
                               streakData.publishDates, Today)
                   ELSE UNCHANGED <<streakData, streakSavesPending, recorded>>
    /\ UNCHANGED <<envVars, diskVars, settings, dispatchQueue,
                   sessionStartWordCount, sessionWordsWritten,
                   lastMilestoneCelebrated, calls, celebrated>>
    /\ UNCHANGED metricVars
    /\ UNCHANGED sideVars

\* The command "Show writing streak": showStreakNotice computes the streak and
\* shows it in a notice.
showStreakNotice ==
    /\ pc = "running"
    /\ calls' = Logged(calls, [op |-> "showStreakNotice",
                               dates |-> streakData.dates,
                               day |-> now \div SecondsPerDay,
                               writingStreak |-> getWritingStreak(streakData.dates, now),
                               publishDates |-> streakData.publishDates,
                               publishStreak |->
                                   getPublishStreak(streakData.publishDates, now)])
    /\ UNCHANGED <<envVars, diskVars, pluginVars, asyncVars, lastLoad, celebrated, recorded>>
    /\ UNCHANGED metricVars
    /\ UNCHANGED sideVars

\* moment(String(date)).isValid(): the text is a date of the calendar
IsValidDate(date) ==
    /\ "y" \in DOMAIN date
    /\ date.m \in 1..12
    /\ date.d \in 1..31
    /\ FormatDay(DaysFromCivil(date.y, date.m, date.d))
           = date.y * 10000 + date.m * 100 + date.d

\* the test of checkOnThisDay on one file, on the day `today` (YYYYMMDD)
OnThisDayMatch(file, today) ==
    LET fm == file.frontmatter
    IN  /\ fm.date \notin {NoDateField, EmptyDate}
        /\ fm.published_url \notin {UNDEFINED, ""}
        /\ IsValidDate(fm.date)
        /\ fm.date.m * 100 + fm.date.d = today % 10000
        /\ fm.date.y # today \div 10000

\* the matches pushed while walking the files in the order `order`
OnThisDayMatches(fs, order, today) ==
    LET Walk[i \in 0..Len(order)] ==
            IF i = 0 THEN <<>>
            ELSE IF OnThisDayMatch(fs[order[i]], today)
                 THEN Append(Walk[i - 1], [file |-> order[i],
                                           year |-> fs[order[i]].frontmatter.date.y])
                 ELSE Walk[i - 1]
    IN  Walk[Len(order)]

\* matches.sort((a, b) => a.year.localeCompare(b.year)): a stable sort by the
\* four-digit year text
RECURSIVE SortByYear(_)
SortByYear(ms) ==
    IF ms = <<>> THEN <<>>
    ELSE LET rest == SortByYear(SubSeq(ms, 1, Len(ms) - 1))
             m    == ms[Len(ms)]
             k    == Cardinality({i \in 1..Len(rest) : rest[i].year <= m.year})
         IN  SubSeq(rest, 1, k) \o <<m>> \o SubSeq(rest, k + 1, Len(rest))

\* the orders in which getMarkdownFiles() may list the files
FileOrders(fs) ==
    {o \in [1..Cardinality(DOMAIN fs) -> DOMAIN fs] :
        \A i, j \in DOMAIN o : i # j => o[i] # o[j]}

\* checkOnThisDay, from the command or from the timeout set at onload
checkOnThisDay ==
    /\ \E show \in BOOLEAN :
          /\ \/ /\ pc = "running"
                /\ show = settings.showOnThisDay
                /\ UNCHANGED onThisDayTimer
             \/ /\ onThisDayTimer.own = "due"
                /\ show = settings.showOnThisDay
                /\ onThisDayTimer' = [onThisDayTimer EXCEPT !.own = "none"]
             \/ \E i \in 1..Len(onThisDayTimer.old) :
                   /\ onThisDayTimer.old[i].at = "due"
                   /\ show = onThisDayTimer.old[i].show
                   /\ onThisDayTimer' = [onThisDayTimer EXCEPT !.old =
                          SubSeq(@, 1, i - 1) \o SubSeq(@, i + 1, Len(@))]
          /\ \E order \in FileOrders(vaultFiles) :
                LET lines == SortByYear(OnThisDayMatches(vaultFiles, order, Today))
                IN  calls' = Logged(calls, [op |-> "checkOnThisDay",
                                           lines |-> lines,
                                           notice |-> IF lines # <<>> THEN "On this day"
                                                      ELSE IF ~show THEN "No posts"
                                                      ELSE "none"])
    /\ UNCHANGED <<envVars, diskVars, pluginVars, asyncVars, lastLoad, celebrated, recorded>>
    /\ UNCHANGED metricVars
    /\ UNCHANGED <<postFolders, debounceTimers, fileEvents, queueSaves,
                   registered, postCreates, settingsSaves>>

\* The "Ready to Publish" list of the dashboard panel: the paths of `ready` in
\* order, each with its note when it has a truthy one.
ReadyListing(q) ==
    IF q = NULL THEN <<>>
    ELSE [i \in 1..Len(q.ready) |->
             [path |-> q.ready[i],
              note |-> IF q.ready[i] \in DOMAIN q.notes /\ Truthy(q.notes[q.ready[i]])
                       THEN q.notes[q.ready[i]] ELSE UNDEFINED]]

\* openDispatchPanel: DispatchPanelModal.onOpen renders the stat cards, the
\* daily goal (calling getDailyWordCount when a goal is set) and the ready list.
openDispatchPanel ==
    /\ CommandsAdded
    /\ LET counts == ComputeCounts(dispatchStatus, vaultFiles, now)
           daily  == GetDailyWordCount(dailyWordCountDate, dailyWordCountCache,
                                       dispatchStatus, vaultFiles, now)
       IN  /\ calls' = Logged(calls, [op |-> "openDispatchPanel",
                                      drafts |-> counts.drafts,
                                      published |-> counts.published,
                                      totalWords |-> counts.totalWords,
                                      todayWords |-> IF settings.wordCountGoal > 0
                                                     THEN daily.value ELSE 0,
                                      ready |-> ReadyListing(dispatchQueue)])
           /\ IF settings.wordCountGoal > 0
              THEN /\ dailyWordCountCache' = daily.cache
                   /\ dailyWordCountDate' = daily.date
              ELSE UNCHANGED <<dailyWordCountCache, dailyWordCountDate>>
    /\ UNCHANGED <<envVars, diskVars, pluginVars, asyncVars, lastLoad, celebrated,
                   recorded, vaultFiles, statusBarText>>
    /\ UNCHANGED sideVars

\* ------------------------------------------------------ session milestones

milestones == <<100, 250, 500, 750, 1000, 1500, 2000, 3000, 5000>>

\* Math.round(size / 5)
RoundFifth(size) == (2 * size + 5) \div 10

RECURSIVE SumWords(_, _)
SumWords(sizes, files) ==
    IF files = {} THEN 0
    ELSE LET f == CHOOSE x \in files : TRUE
         IN  RoundFifth(sizes[f]) + SumWords(sizes, files \ {f})

getTotalBlogWords(status, sizes) ==
    IF status # NULL THEN status.stats.total_words
    ELSE SumWords(sizes, DOMAIN sizes)

Max(a, b) == IF a >= b THEN a ELSE b

\* the loop without the test against lastMilestoneCelebrated
MilestoneReached(words, last) ==
    LET hits == {i \in 1..Len(milestones) : words >= milestones[i]}
    IN  IF hits = {} THEN 0
        ELSE milestones[CHOOSE i \in hits : \A j \in hits : i <= j]

\* the loop testing lastMilestoneCelebrated <= milestone
MilestoneInclusive(words, last) ==
    LET hits == {i \in 1..Len(milestones) : words >= milestones[i] /\ last <= milestones[i]}
    IN  IF hits = {} THEN 0
        ELSE milestones[CHOOSE i \in hits : \A j \in hits : i <= j]

\* the loop walking the milestones from the highest down
MilestoneHighest(words, last) ==
    LET hits == {i \in 1..Len(milestones) : words >= milestones[i] /\ last < milestones[i]}
    IN  IF hits = {} THEN 0
        ELSE milestones[CHOOSE i \in hits : \A j \in hits : i >= j]

\* The milestone the loop of checkSessionMilestones celebrates: the first one
\* reached and above lastMilestoneCelebrated; 0 when the loop finds none.
MilestoneToCelebrate(words, last) ==
    LET hits == {i \in 1..Len(milestones) : words >= milestones[i] /\ last < milestones[i]}
    IN  IF hits = {} THEN 0
        ELSE milestones[CHOOSE i \in hits : \A j \in hits : i <= j]

\* The vault's "modify" event for a blog file, with the write that raises it
\* (the file's size becomes `size`), at any time. The handler onload
\* registers at its end, when the setting is on by then, calls
\* checkSessionMilestones, which returns at once when the setting is off;
\* the handler registered earlier calls debouncedStatusUpdate.
modifyBlogFile(file, size) ==
    /\ file \in DOMAIN vaultFiles
    /\ fileSize' = [fileSize EXCEPT ![file] = size]
    /\ vaultFiles' = [vaultFiles EXCEPT ![file].mtime = now]
    /\ IF "milestones" \in registered /\ settings.celebrateMilestones
       THEN LET current == getTotalBlogWords(dispatchStatus, fileSize')
                words   == Max(0, current - sessionStartWordCount)
                fired   == MilestoneToCelebrate(words, lastMilestoneCelebrated)
            IN  /\ sessionWordsWritten' = words
                /\ lastMilestoneCelebrated' =
                       IF fired # 0 THEN fired ELSE lastMilestoneCelebrated
                /\ calls' = Logged(calls, [op |-> "checkSessionMilestones",
                                           words |-> words, fired |-> fired,
                                           before |-> lastMilestoneCelebrated])
                /\ celebrated' =
                       IF fired # 0 THEN Append(celebrated, fired) ELSE celebrated
       ELSE UNCHANGED <<sessionWordsWritten, lastMilestoneCelebrated, calls,
                        celebrated>>
    /\ UNCHANGED <<now, statusFile, diskVars, pc, settings, dispatchStatus,
                   dispatchQueue, streakData, sessionStartWordCount,
                   asyncVars, lastLoad, recorded>>
    /\ UNCHANGED <<dailyWordCountCache, dailyWordCountDate, statusBarText>>
    /\ vaultEvent
    /\ UNCHANGED <<postFolders, onThisDayTimer, queueSaves, registered,
                   postCreates, settingsSaves>>

\* The command "Show session stats": showSessionStats assigns the session's
\* words and calls getDailyWordCount() when a daily goal is set; the notice it
\* shows is not followed.
showSessionStats ==
    /\ pc = "running"
    /\ LET words == Max(0, getTotalBlogWords(dispatchStatus, fileSize)
                              - sessionStartWordCount)
           daily == GetDailyWordCount(dailyWordCountDate, dailyWordCountCache,
                                      dispatchStatus, vaultFiles, now)
       IN  /\ sessionWordsWritten' = words
           /\ IF settings.wordCountGoal > 0
              THEN /\ dailyWordCountCache' = daily.cache
                   /\ dailyWordCountDate' = daily.date
              ELSE UNCHANGED <<dailyWordCountCache, dailyWordCountDate>>
    /\ UNCHANGED <<envVars, diskVars, pc, settings, dispatchStatus, dispatchQueue,
                   streakData, sessionStartWordCount, lastMilestoneCelebrated,
                   asyncVars, obsVars, vaultFiles, statusBarText>>
    /\ UNCHANGED sideVars

\* The vault's "delete" event for a blog file, with the deletion that raises
\* it, at any time.
deleteBlogFile(file) ==
    /\ file \in DOMAIN vaultFiles
    /\ vaultFiles' = [f \in (DOMAIN vaultFiles) \ {file} |-> vaultFiles[f]]
    /\ fileSize' = [f \in (DOMAIN fileSize) \ {file} |-> fileSize[f]]
    /\ vaultEvent
    /\ UNCHANGED <<now, statusFile, diskVars, pluginVars, asyncVars, obsVars>>
    /\ UNCHANGED <<dailyWordCountCache, dailyWordCountDate, statusBarText,
                   postFolders, onThisDayTimer, queueSaves, registered,
                   postCreates, settingsSaves>>

\* onunload: its body is empty. The host removes the registered event
\* handlers and clears the registered interval of the poll; the fields of the
\* instance and the timers set with setTimeout stay.
onunload ==
    /\ pc = "running"
    /\ pc' = "unloaded"
    /\ registered' = {}
    /\ UNCHANGED <<envVars, diskVars, settings, dispatchStatus, dispatchQueue,
                   streakData, sessionStartWordCount, sessionWordsWritten,
                   lastMilestoneCelebrated, asyncVars, obsVars>>
    /\ UNCHANGED metricVars
    /\ UNCHANGED <<postFolders, debounceTimers, fileEvents, onThisDayTimer,
                   queueSaves, postCreates, settingsSaves>>

\* -------------------------------------------------------------- new posts

\* `${blogFolder}/${year}` and `${folderPath}/${slug}.md` at time t
PostFolder(t) == "blog" \o "/" \o ToString(FormatDay(t \div SecondsPerDay) \div 10000)
PostPath(slug, t) == PostFolder(t) \o "/" \o slug \o ".md"

\* the new file as the vault and the metadata cache hold it: written at time
\* t, with the date the call formatted, the day `day`, in its front matter
NewPost(t, day) ==
    [mtime |-> t,
     frontmatter |-> [published_url |-> UNDEFINED,
                      date |-> DateString(day \div 10000, (day \div 100) % 100, day % 100)],
     sections |-> <<[type |-> "yaml", startLine |-> 0, endLine |-> 3],
                    [type |-> "heading", startLine |-> 5, endLine |-> 5]>>]

\* Most createBlogPostFromModal calls in progress at a time.
MaxPostCalls == 1

\* createBlogPostFromModal without the test for an existing file
CreateBlogPostOverwrite(fs, folders, slug, title, t) ==
    LET folder == PostFolder(t)
        path   == PostPath(slug, t)
    IN  [at     |-> IF folder \in (DOMAIN fs) \cup folders
                    THEN "create" ELSE "createFolder",
         slug   |-> slug, title |-> title, path |-> path, folder |-> folder,
         day    |-> FormatDay(t \div SecondsPerDay)]

\* createBlogPostFromModal up to its first await. The year and the date are
\* formatted first; getAbstractFileByPath finds a file or a folder. With the
\* path taken the call ends ("exists"); else it awaits createFolder when the
\* year's folder is missing, and vault.create when it is there.
CreateBlogPost(fs, folders, slug, title, t) ==
    LET folder == PostFolder(t)
        path   == PostPath(slug, t)
    IN  [at     |-> IF path \in (DOMAIN fs) \cup folders THEN "exists"
                    ELSE IF folder \in (DOMAIN fs) \cup folders
                    THEN "create" ELSE "createFolder",
         slug   |-> slug, title |-> title, path |-> path, folder |-> folder,
         day    |-> FormatDay(t \div SecondsPerDay)]

\* the calls in progress without the i-th
Without(seq, i) == SubSeq(seq, 1, i - 1) \o SubSeq(seq, i + 1, Len(seq))

\* The "Create & Open" button of the new post modal: the call up to its first
\* await, or to its return with the notice "File already exists".
createBlogPostFromModal(slug, title) ==
    /\ CommandsAdded
    /\ LET r == CreateBlogPost(vaultFiles, postFolders, slug, title, now)
       IN  IF r.at = "exists"
           THEN /\ calls' = Logged(calls, [op |-> "createBlogPostFromModal",
                                           path |-> r.path,
                                           notice |-> "File already exists"])
                /\ UNCHANGED postCreates
           ELSE /\ Len(postCreates) < MaxPostCalls
                /\ postCreates' = Append(postCreates, r)
                /\ UNCHANGED calls
    /\ UNCHANGED <<envVars, diskVars, pluginVars, asyncVars, lastLoad, celebrated,
                   recorded>>
    /\ UNCHANGED metricVars
    /\ UNCHANGED <<postFolders, debounceTimers, fileEvents, onThisDayTimer,
                   queueSaves, registered, settingsSaves>>

\* The createFolder of the year's folder a call awaits completes, and the call
\* goes on to vault.create. When another call has created the folder in
\* between, the vault either rejects, which ends the call, or resolves. The
\* vault may raise its create event for the new folder (`raised`).
createPostFolderDone ==
    /\ \E i \in 1..Len(postCreates), ok \in BOOLEAN, raised \in BOOLEAN :
          LET there == postCreates[i].folder \in postFolders
          IN  /\ postCreates[i].at = "createFolder"
              /\ ok \/ there
              /\ raised => (ok /\ ~there)
              /\ IF ok
                 THEN /\ postFolders' = postFolders \cup {postCreates[i].folder}
                      /\ postCreates' = [postCreates EXCEPT ![i].at = "create"]
                 ELSE /\ postCreates' = Without(postCreates, i)
                      /\ UNCHANGED postFolders
              /\ IF raised THEN vaultEvent
                 ELSE UNCHANGED <<debounceTimers, fileEvents>>
    /\ UNCHANGED <<envVars, diskVars, pluginVars, asyncVars, obsVars>>
    /\ UNCHANGED metricVars
    /\ UNCHANGED <<onThisDayTimer, queueSaves, registered, settingsSaves>>

\* The vault.create a call awaits completes: the file is there, with the date
\* the call formatted at its start; the vault raises its create event, and
\* the call goes on to openFile. A create that finds the path taken by another
\* call in between either rejects, which ends the call, or replaces the file.
\* The content written with the default options is the front matter with
\* `date` (25 characters) and `tags: []` and the title heading, 54 characters
\* and the title.
createPostFileDone ==
    /\ \E i \in 1..Len(postCreates), ok \in BOOLEAN :
          LET c == postCreates[i]
          IN  /\ c.at = "create"
              /\ ok \/ c.path \in DOMAIN vaultFiles
              /\ IF ok
                 THEN /\ vaultFiles' = (c.path :> NewPost(now, c.day)) @@ vaultFiles
                      /\ fileSize' = (c.path :> 54 + Len(c.title)) @@ fileSize
                      /\ postCreates' = [postCreates EXCEPT ![i].at = "openFile"]
                      /\ vaultEvent
                 ELSE /\ postCreates' = Without(postCreates, i)
                      /\ UNCHANGED <<vaultFiles, fileSize, debounceTimers, fileEvents>>
    /\ UNCHANGED <<now, statusFile, diskVars, pluginVars, asyncVars, obsVars>>
    /\ UNCHANGED <<dailyWordCountCache, dailyWordCountDate, statusBarText>>
    /\ UNCHANGED <<postFolders, onThisDayTimer, queueSaves, registered,
                   settingsSaves>>

\* The openFile a call awaits completes: the notice "Created" is shown and,
\* with streaks enabled, recordWritingDay() records the day it is by then.
openFileDone ==
    /\ \E i \in 1..Len(postCreates) :
          /\ postCreates[i].at = "openFile"
          /\ postCreates' = Without(postCreates, i)
          /\ calls' = Logged(calls, [op |-> "createBlogPostFromModal",
                                     path |-> postCreates[i].path,
                                     notice |-> "Created"])
    /\ IF settings.enableStreaks
       THEN /\ streakData' = [streakData EXCEPT !.dates = RecordDay(@, Today)]
            /\ recorded' = [recorded EXCEPT
                               !.dates = RecordedDay(@, streakData.dates, Today)]
            /\ streakSavesPending' =
                   SavesAfter(streakSavesPending, streakData.dates, Today)
       ELSE UNCHANGED <<streakData, recorded, streakSavesPending>>
    /\ UNCHANGED <<envVars, diskVars, pc, settings, dispatchStatus, dispatchQueue,
                   sessionStartWordCount, sessionWordsWritten,
                   lastMilestoneCelebrated, statusReadPending, lastLoad, celebrated>>
    /\ UNCHANGED metricVars
    /\ UNCHANGED <<postFolders, debounceTimers, fileEvents, onThisDayTimer,
                   queueSaves, registered, settingsSaves>>

\* ------------------------------------------------------------------ onload

\* await this.loadSettings()
onloadSettings ==
    /\ pc = "constructed"
    /\ settings' = LoadSettings(dataFile)
    /\ pc' = "settings"
    /\ UNCHANGED <<envVars, diskVars, dispatchStatus, dispatchQueue, streakData,
                   sessionStartWordCount, sessionWordsWritten,
                   lastMilestoneCelebrated, asyncVars, obsVars>>
    /\ UNCHANGED metricVars
    /\ UNCHANGED sideVars

\* await this.loadDispatchStatus(): up to the await inside it
onloadStatus ==
    /\ pc = "settings"
    /\ StartLoadDispatchStatus
    /\ pc' = IF statusFile # NULL THEN "statusRead" ELSE "status"
    /\ UNCHANGED <<envVars, diskVars, settings, dispatchStatus, dispatchQueue,
                   streakData, sessionStartWordCount, sessionWordsWritten,
                   lastMilestoneCelebrated, streakSavesPending, calls, celebrated, recorded>>
    /\ UNCHANGED metricVars
    /\ UNCHANGED sideVars

\* The end of onload, from the session's starting word total on: the modify
\* handler of the milestones is registered when the setting is on, and the
\* timeout of checkOnThisDay is set when that setting is on.
onloadEnd ==
    /\ sessionStartWordCount' =
           IF settings.sessionWordCount
           THEN getTotalBlogWords(dispatchStatus, fileSize)
           ELSE sessionStartWordCount
    /\ registered' = {"debounce"} \cup
           (IF settings.celebrateMilestones THEN {"milestones"} ELSE {})
    /\ onThisDayTimer' = [onThisDayTimer EXCEPT
                              !.own = IF settings.showOnThisDay THEN "set" ELSE "none"]
    /\ pc' = "running"

\* await this.loadDispatchQueue(), and the synchronous code after it: with
\* showStatusBar the status bar item is added and updateStatusBar() called;
\* the handlers of the vault's events are registered and the commands added.
\* With streaks enabled onload then awaits loadStreakData(); with streaks
\* disabled it runs to its end.
onloadQueue ==
    /\ pc = "status"
    /\ dispatchQueue' = LoadDispatchQueue(queueFile, now)
    /\ IF settings.showStatusBar
       THEN LET r == UpdateStatusBar(NewStatusBar, settings, dispatchStatus,
                                     vaultFiles, dailyWordCountDate,
                                     dailyWordCountCache, now)
            IN  /\ statusBarText' = r.bar
                /\ dailyWordCountCache' = r.cache
                /\ dailyWordCountDate' = r.date
       ELSE UNCHANGED <<statusBarText, dailyWordCountCache, dailyWordCountDate>>
    /\ IF settings.enableStreaks
       THEN /\ pc' = "queue"
            /\ registered' = {"debounce"}
            /\ UNCHANGED <<sessionStartWordCount, onThisDayTimer>>
       ELSE onloadEnd
    /\ UNCHANGED <<envVars, diskVars, settings, dispatchStatus, streakData,
                   sessionWordsWritten, lastMilestoneCelebrated, asyncVars, obsVars>>
    /\ UNCHANGED vaultFiles
    /\ UNCHANGED <<postFolders, debounceTimers, fileEvents, queueSaves,
                   postCreates, settingsSaves>>

\* loadStreakData: if (data?.streakData) this.streakData = data.streakData
LoadStreakData(data, held) ==
    IF data = NULL THEN held
    ELSE IF "streakData" \notin DOMAIN data THEN held
    ELSE IF data.streakData = NULL THEN held
    ELSE data.streakData

\* await this.loadStreakData(): its loadData() has resolved
onloadStreakData ==
    /\ pc = "queue"
    /\ streakData' = LoadStreakData(dataFile, streakData)
    /\ recorded' = streakData'
    /\ pc' = "streak"
    /\ UNCHANGED <<envVars, diskVars, settings, dispatchStatus, dispatchQueue,
                   sessionStartWordCount, sessionWordsWritten,
                   lastMilestoneCelebrated, asyncVars, calls, lastLoad, celebrated>>
    /\ UNCHANGED metricVars
    /\ UNCHANGED sideVars

\* the rest of onload with streaks enabled: recordWritingDay(), and the end
onloadJoy ==
    /\ pc = "streak"
    /\ streakData' = [streakData EXCEPT !.dates = RecordDay(@, Today)]
    /\ recorded' = [recorded EXCEPT
                       !.dates = RecordedDay(@, streakData.dates, Today)]
    /\ streakSavesPending' =
           SavesAfter(streakSavesPending, streakData.dates, Today)
    /\ onloadEnd
    /\ UNCHANGED <<envVars, diskVars, settings, dispatchStatus, dispatchQueue,
                   sessionWordsWritten, lastMilestoneCelebrated,
                   statusReadPending, calls, lastLoad, celebrated>>
    /\ UNCHANGED metricVars
    /\ UNCHANGED <<postFolders, debounceTimers, fileEvents, queueSaves,
                   postCreates, settingsSaves>>

\* the settings of the settings tab that are followed, and the values given
SettingValues ==
    [enableStreaks |-> BOOLEAN, celebrateMilestones |-> BOOLEAN,
     sessionWordCount |-> BOOLEAN, showStatusBar |-> BOOLEAN,
     showOnThisDay |-> BOOLEAN, statusBarFormat |-> {"counts", "words", "both"},
     wordCountGoal |-> {0, 500}]

\* Most saveSettings calls in progress at a time.
MaxSettingsSaves == 1

\* A change in the settings tab, up to the await of its handler: the setting
\* is assigned and saveSettings() hands this.settings, as it is, to saveData.
saveSettings(key, value) ==
    /\ pc = "running"
    /\ value \in SettingValues[key]
    /\ Len(settingsSaves) < MaxSettingsSaves
    /\ settings' = [settings EXCEPT ![key] = value]
    /\ settingsSaves' = Append(settingsSaves, [content |-> settings', key |-> key])
    /\ UNCHANGED <<envVars, diskVars, pc, dispatchStatus,
                   dispatchQueue, streakData, sessionStartWordCount,
                   sessionWordsWritten, lastMilestoneCelebrated, asyncVars, obsVars>>
    /\ UNCHANGED metricVars
    /\ UNCHANGED <<postFolders, debounceTimers, fileEvents, onThisDayTimer,
                   queueSaves, registered, postCreates>>

\* The saveData of a saveSettings call completes: data.json is replaced by
\* the settings handed over; the writes in progress complete in any order.
\* The handlers of the status bar format and of the daily goal go on to
\* updateStatusBar().
saveSettingsDone ==
    /\ \E i \in 1..Len(settingsSaves) :
          /\ dataFile' = settingsSaves[i].content
          /\ settingsSaves' = Without(settingsSaves, i)
          /\ IF settingsSaves[i].key \in {"statusBarFormat", "wordCountGoal"}
             THEN updateStatusBar
             ELSE UNCHANGED <<statusBarText, dailyWordCountCache, dailyWordCountDate>>
    /\ UNCHANGED <<envVars, dispatchFolder, queueFile, pluginVars, asyncVars,
                   obsVars, vaultFiles>>
    /\ UNCHANGED <<postFolders, debounceTimers, fileEvents, onThisDayTimer,
                   queueSaves, registered, postCreates>>

\* the fields of a newly constructed plugin instance
Constructed ==
    /\ pc = "constructed"
    /\ settings = DEFAULT_SETTINGS
    /\ dispatchStatus = NULL
    /\ dispatchQueue = NULL
    /\ streakData = EmptyStreak
    /\ sessionStartWordCount = 0
    /\ sessionWordsWritten = 0
    /\ lastMilestoneCelebrated = 0
    /\ statusReadPending = 0
    /\ streakSavesPending = <<>>
    /\ calls = <<>>
    /\ lastLoad = NULL
    /\ celebrated = <<>>
    /\ recorded = EmptyStreak
    /\ dailyWordCountCache = 0
    /\ dailyWordCountDate = NO_DATE
    /\ statusBarText = NULL
    /\ debounceTimers = <<>>
    /\ fileEvents = NoEvents
    /\ onThisDayTimer = NoTimeouts
    /\ queueSaves = <<>>
    /\ registered = {}
    /\ postCreates = <<>>
    /\ settingsSaves = <<>>

\* Most timeouts of unloaded instances pending at a time.
MaxOldTimeouts == 1

\* The plugin is disabled and enabled again, with no call in progress: a new
\* instance is constructed, the vault and data.json stay; the host removes the
\* registered handlers. onunload clears nothing, so the timeout the
\* old instance set with window.setTimeout stays pending, with the settings
\* of that instance. (The timer of its debouncedStatusUpdate stays too; its
\* callback sets the text of the old instance's status bar item, which the
\* host has removed, and changes nothing of the new instance.)
reload ==
    /\ pc = "running"
    /\ statusReadPending = 0
    /\ streakSavesPending = <<>>
    /\ ~QueueSavePending
    /\ postCreates = <<>>
    /\ settingsSaves = <<>>
    /\ onThisDayTimer.own # "none" => Len(onThisDayTimer.old) < MaxOldTimeouts
    /\ pc' = "constructed"
    /\ settings' = DEFAULT_SETTINGS
    /\ dispatchStatus' = NULL
    /\ dispatchQueue' = NULL
    /\ streakData' = EmptyStreak
    /\ sessionStartWordCount' = 0
    /\ sessionWordsWritten' = 0
    /\ lastMilestoneCelebrated' = 0
    /\ calls' = <<>>
    /\ lastLoad' = NULL
    /\ celebrated' = <<>>
    /\ recorded' = EmptyStreak
    /\ dailyWordCountCache' = 0
    /\ dailyWordCountDate' = NO_DATE
    /\ statusBarText' = NULL
    /\ debounceTimers' = <<>>
    /\ fileEvents' = NoEvents
    /\ onThisDayTimer' =
           [own |-> "none",
            old |-> IF onThisDayTimer.own = "none" THEN onThisDayTimer.old
                    ELSE Append(onThisDayTimer.old,
                                [at |-> onThisDayTimer.own,
                                 show |-> settings.showOnThisDay])]
    /\ queueSaves' = <<>>
    /\ registered' = {}
    /\ UNCHANGED <<envVars, diskVars, asyncVars, vaultFiles, postFolders,
                   postCreates, settingsSaves>>

\* ------------------------------------------------------------- environment

\* The clock advances by ClockStep, at most `steps` times. File reads and
\* writes that were started have completed by then, and the timers of
\* debouncedStatusUpdate that were due have run. The timeout of three seconds
\* set at the end of onload is due after it.
advanceClock(steps) ==
    /\ statusReadPending = 0
    /\ streakSavesPending = <<>>
    /\ ~QueueSavePending
    /\ settingsSaves = <<>>
    /\ ~TimerDue
    /\ now + ClockStep <= StartTime + steps * ClockStep
    /\ now' = now + ClockStep
    /\ UNCHANGED <<statusFile, fileSize, diskVars, pluginVars, asyncVars, obsVars>>
    /\ UNCHANGED metricVars
    /\ onThisDayTimer' = TimeoutsDue(onThisDayTimer)
    /\ UNCHANGED <<postFolders, debounceTimers, fileEvents, queueSaves,
                   registered, postCreates, settingsSaves>>

\* Midnight passes: the clock advances by one day. The saves of a day have
\* written by then; after the first `window` days every day is recorded in
\* both lists before it ends.
advanceDay(days, window) ==
    /\ pc = "running"
    /\ streakSavesPending = <<>>
    /\ ~QueueSavePending
    /\ settingsSaves = <<>>
    /\ ~TimerDue
    /\ now + SecondsPerDay <= StartTime + days * SecondsPerDay
    /\ \/ (now - StartTime) \div SecondsPerDay < window
       \/ /\ Includes(streakData.dates, Today)
          /\ Includes(streakData.publishDates, Today)
    /\ now' = now + SecondsPerDay
    /\ UNCHANGED <<statusFile, fileSize, diskVars, pluginVars, asyncVars, obsVars>>
    /\ UNCHANGED metricVars
    /\ onThisDayTimer' = TimeoutsDue(onThisDayTimer)
    /\ UNCHANGED <<postFolders, debounceTimers, fileEvents, queueSaves,
                   registered, postCreates, settingsSaves>>

\* Dispatch writes status.json, into the .dispatch folder it keeps
externalWriteStatus(slug, words) ==
    /\ statusFile' = Stringify(Snapshot(now, slug, words))
    /\ dispatchFolder' = TRUE
    /\ UNCHANGED <<now, fileSize, queueFile, dataFile, pluginVars, asyncVars, obsVars>>
    /\ UNCHANGED metricVars
    /\ UNCHANGED sideVars

\* Dispatch writes status.json with the per-file word counts of its scan
externalWriteStatusFiles(sfs) ==
    /\ statusFile' = Stringify([Snapshot(now, NULL_SLUG, 15000) EXCEPT !.files = sfs])
    /\ dispatchFolder' = TRUE
    /\ UNCHANGED <<now, fileSize, queueFile, dataFile, pluginVars, asyncVars, obsVars>>
    /\ UNCHANGED metricVars
    /\ UNCHANGED sideVars

\* the metadata cache has re-indexed a blog file: its sections changed
sectionsChanged(file, sections) ==
    /\ file \in DOMAIN vaultFiles
    /\ vaultFiles[file].sections # sections
    /\ vaultFiles' = [vaultFiles EXCEPT ![file].sections = sections]
    /\ UNCHANGED <<envVars, diskVars, pluginVars, asyncVars, obsVars,
                   dailyWordCountCache, dailyWordCountDate, statusBarText>>
    /\ UNCHANGED sideVars

\* status.json is left with content that is no JSON (a partial write)
externalCorruptStatus ==
    /\ statusFile # MALFORMED
    /\ statusFile' = MALFORMED
    /\ dispatchFolder' = TRUE
    /\ UNCHANGED <<now, fileSize, queueFile, dataFile, pluginVars, asyncVars, obsVars>>
    /\ UNCHANGED metricVars
    /\ UNCHANGED sideVars

\* status.json is removed
externalDeleteStatus ==
    /\ statusFile # NULL
    /\ statusFile' = NULL
    /\ UNCHANGED <<now, fileSize, diskVars, pluginVars, asyncVars, obsVars>>
    /\ UNCHANGED metricVars
    /\ UNCHANGED sideVars

\* -------------------------------------------- specification: publish queue

NoFiles == [f \in Paths |-> 0]

InitPlugin ==
    /\ now = StartTime
    /\ statusFile = NULL
    /\ dispatchFolder = FALSE
    /\ queueFile = NULL
    /\ dataFile = NULL
    /\ fileSize = NoFiles
    /\ vaultFiles = NewFiles(StartTime)
    /\ postFolders = {}
    /\ Constructed

\* data.json as a settings change left it, with streaks disabled: onload has
\* no await after loadDispatchQueue
InitQueue ==
    /\ now = StartTime
    /\ statusFile = NULL
    /\ dispatchFolder = FALSE
    /\ queueFile = NULL
    /\ dataFile = [DEFAULT_SETTINGS EXCEPT !.enableStreaks = FALSE]
    /\ fileSize = NoFiles
    /\ vaultFiles = NewFiles(StartTime)
    /\ postFolders = {}
    /\ Constructed

\* The calls are made one at a time.
NextQueue ==
    \/ onloadSettings
    \/ onloadStatus
    \/ onloadQueue
    \/ \E p \in Paths, n \in NoteArgs : ~QueueSavePending /\ markReady(p, n)
    \/ \E p \in Paths : ~QueueSavePending /\ unmarkReady(p)
    \/ createFolderDone
    \/ writeQueueDone
    \/ debouncedStatusUpdateRun
    \/ advanceClock(MaxQueueClockSteps)
    \/ reload

SpecQueue == InitQueue /\ [][NextQueue]_vars

\* ---------------------------------------------- specification: streak lists

NextStreak ==
    \/ onloadSettings
    \/ onloadStatus
    \/ onloadQueue
    \/ onloadStreakData
    \/ onloadJoy
    \/ recordWritingDay
    \/ recordPublishDay
    \/ saveStreakDataLoaded
    \/ saveStreakDataWrite
    \/ advanceDay(MaxDays, MissWindow)

SpecStreak == InitPlugin /\ [][NextStreak]_vars

\* -------------------------------------------- specification: streak queries

\* the days a persisted list may hold
WindowDays ==
    {FormatDay(StartTime \div SecondsPerDay + k) : k \in (0 - WindowBack)..WindowAhead}

\* the persisted lists: distinct days, in any order
DateLists ==
    {ds \in UNION {[1..n -> WindowDays] : n \in 0..MaxDatesLen} :
        \A i, j \in 1..Len(ds) : i # j => ds[i] # ds[j]}

InitQuery ==
    /\ now = StartTime
    /\ statusFile = NULL
    /\ dispatchFolder = FALSE
    /\ queueFile = NULL
    /\ dataFile \in {SavedData(NULL, DEFAULT_SETTINGS,
                               [dates |-> ds, publishDates |-> <<>>])
                     : ds \in DateLists}
    /\ fileSize = NoFiles
    /\ vaultFiles = NewFiles(StartTime)
    /\ postFolders = {}
    /\ Constructed

NextQuery ==
    \/ onloadSettings
    \/ onloadStatus
    \/ onloadQueue
    \/ onloadStreakData
    \/ onloadJoy
    \/ recordWritingDay
    \/ saveStreakDataLoaded
    \/ saveStreakDataWrite
    \/ advanceDay(MaxQueryDays, MaxQueryDays)
    \/ showStreakNotice

SpecQuery == InitQuery /\ [][NextQuery]_vars

\* -------------------------------------------- specification: status polling

\* last_publish values Dispatch writes: null, the empty text, two slugs
Slugs == {NULL_SLUG, "", "post-a", "post-b"}

\* data.json as a settings change left it: streaks enabled or disabled
InitStatus ==
    /\ now = StartTime
    /\ statusFile = NULL
    /\ dispatchFolder = FALSE
    /\ queueFile = NULL
    /\ dataFile \in {NULL, [DEFAULT_SETTINGS EXCEPT !.enableStreaks = FALSE]}
    /\ fileSize = NoFiles
    /\ vaultFiles = NewFiles(StartTime)
    /\ postFolders = {}
    /\ Constructed

NextStatus ==
    \/ onloadSettings
    \/ onloadStatus
    \/ finishLoadDispatchStatus
    \/ onloadQueue
    \/ onloadStreakData
    \/ onloadJoy
    \/ saveStreakDataLoaded
    \/ saveStreakDataWrite
    \/ pollTick
    \/ \E slug \in Slugs : externalWriteStatus(slug, 15000)
    \/ externalCorruptStatus
    \/ externalDeleteStatus
    \/ advanceClock(MaxStatusClockSteps)

SpecStatus == InitStatus /\ [][NextStatus]_vars

\* ------------------------------------------------ specification: freshness

\* One snapshot is written and read, and ages past five and ten minutes.
NextFresh ==
    \/ onloadSettings
    \/ onloadStatus
    \/ finishLoadDispatchStatus
    \/ onloadQueue
    \/ onloadStreakData
    \/ onloadJoy
    \/ saveStreakDataLoaded
    \/ saveStreakDataWrite
    \/ pollTick
    \/ externalWriteStatus(NULL_SLUG, 15000)
    \/ externalDeleteStatus
    \/ advanceClock(MaxClockSteps)

SpecFresh == InitStatus /\ [][NextFresh]_vars

\* --------------------------------------- specification: session milestones

\* stat.size of the first blog file after a write: 0, 100, 480 and 510 words
\* at 5 bytes a word
Sizes == {0, 500, 2400, 2550}

\* stat.size of the second blog file after a write: 100 words
OtherSizes == {500}

\* total_words Dispatch reports
StatusWords == {15000, 15510}

InitMilestone ==
    /\ now = StartTime
    /\ statusFile = NULL
    /\ dispatchFolder = FALSE
    /\ queueFile = NULL
    /\ dataFile = [DEFAULT_SETTINGS EXCEPT !.showOnThisDay = FALSE]
    /\ fileSize = NoFiles
    /\ vaultFiles = NewFiles(StartTime)
    /\ postFolders = {}
    /\ Constructed

NextMilestone ==
    \/ onloadSettings
    \/ onloadStatus
    \/ finishLoadDispatchStatus
    \/ onloadQueue
    \/ onloadStreakData
    \/ onloadJoy
    \/ saveStreakDataLoaded
    \/ saveStreakDataWrite
    \/ pollTick
    \/ \E words \in StatusWords : externalWriteStatus(NULL_SLUG, words)
    \/ \E size \in Sizes : modifyBlogFile("blog/a.md", size)
    \/ \E size \in OtherSizes : modifyBlogFile("blog/b.md", size)
    \/ reload

SpecMilestone == InitMilestone /\ [][NextMilestone]_vars

\* ------------------------------------------- specification: status counts

\* values of published_url in the front matter: no key, empty, a URL
UrlValues == {UNDEFINED, "", "https://ejfox.com/blog/a"}

\* a vault of five blog files: two with a URL, one with an empty
\* published_url, two without the key
FiveFiles ==
    [f \in {"blog/a.md", "blog/b.md", "blog/c.md", "blog/d.md", "blog/e.md"} |->
        [NewFile(StartTime) EXCEPT !.frontmatter.published_url =
            IF f \in {"blog/a.md", "blog/b.md"} THEN "https://ejfox.com/blog/a"
            ELSE IF f = "blog/c.md" THEN "" ELSE UNDEFINED]]

\* the blog files of the vault: any of the paths, each with any
\* published_url, or the five files
FileConfigs ==
    UNION {[S -> {[NewFile(StartTime) EXCEPT !.frontmatter.published_url = u]
                     : u \in UrlValues}] : S \in SUBSET Paths}
        \cup {FiveFiles}

\* queue.json as an earlier session left it
SavedQueue ==
    Stringify([updated_at |-> StartTime, ready |-> <<"blog/a.md">>,
               notes |-> SetNote(EmptyNotes, "blog/a.md", "final pass")])

\* Number of ClockStep advances the counts specification allows.
MaxCountsClockSteps == 6

InitCounts ==
    /\ now = StartTime
    /\ statusFile = NULL
    /\ dispatchFolder = TRUE
    /\ queueFile = SavedQueue
    /\ dataFile \in {NULL, [DEFAULT_SETTINGS EXCEPT !.statusBarFormat = "counts"]}
    /\ fileSize = NoFiles
    /\ vaultFiles \in FileConfigs
    /\ postFolders = {}
    /\ Constructed

NextCounts ==
    \/ onloadSettings
    \/ onloadStatus
    \/ finishLoadDispatchStatus
    \/ onloadQueue
    \/ onloadStreakData
    \/ onloadJoy
    \/ saveStreakDataLoaded
    \/ saveStreakDataWrite
    \/ pollTick
    \/ openDispatchPanel
    \/ externalWriteStatus(NULL_SLUG, 15000)
    \/ advanceClock(MaxCountsClockSteps)

SpecCounts == InitCounts /\ [][NextCounts]_vars

\* ------------------------------------------------ specification: new posts

\* the `slug` field of the modal
PostSlugs == {"hello", "notes"}

\* Number of days the new posts specification lets pass.
MaxPostDays == 2

InitPost ==
    /\ now = StartTime
    /\ statusFile = NULL
    /\ dispatchFolder = FALSE
    /\ queueFile = NULL
    /\ dataFile \in {NULL, [DEFAULT_SETTINGS EXCEPT !.enableStreaks = FALSE]}
    /\ \/ /\ vaultFiles = NewFiles(StartTime)
          /\ postFolders = {}
          /\ fileSize = NoFiles
       \/ \* a post created the day before the plugin starts
          /\ vaultFiles = (PostPath("hello", StartTime) :> NewPost(StartTime - SecondsPerDay,
                                       FormatDay(StartTime \div SecondsPerDay - 1)))
                              @@ NewFiles(StartTime)
          /\ postFolders = {PostFolder(StartTime)}
          /\ fileSize = (PostPath("hello", StartTime) :> 59) @@ NoFiles
    /\ Constructed

NextPost ==
    \/ onloadSettings
    \/ onloadStatus
    \/ onloadQueue
    \/ onloadStreakData
    \/ onloadJoy
    \/ saveStreakDataLoaded
    \/ saveStreakDataWrite
    \/ \E slug \in PostSlugs : createBlogPostFromModal(slug, "Hello")
    \/ createPostFolderDone
    \/ createPostFileDone
    \/ openFileDone
    \/ debouncedStatusUpdateRun
    \/ advanceDay(MaxPostDays, MaxPostDays)
    \/ reload

SpecPost == InitPost /\ [][NextPost]_vars

\* ------------------------------------------ specification: persisted data

\* the streak data of data.json before the session: the day before the start
OldStreak ==
    [dates |-> <<FormatDay(StartTime \div SecondsPerDay - 1)>>,
     publishDates |-> <<FormatDay(StartTime \div SecondsPerDay - 1)>>]

\* days followed after the start
MaxPersistDays == 1

InitPersist ==
    /\ now = StartTime
    /\ statusFile \in {NULL, Stringify(Snapshot(StartTime, "post-a", 15000))}
    /\ dispatchFolder = (statusFile # NULL)
    /\ queueFile = NULL
    /\ dataFile = SavedData(NULL, DEFAULT_SETTINGS, OldStreak)
    /\ fileSize = NoFiles
    /\ vaultFiles = NewFiles(StartTime)
    /\ postFolders = {}
    /\ Constructed

NextPersist ==
    \/ onloadSettings
    \/ onloadStatus
    \/ finishLoadDispatchStatus
    \/ onloadQueue
    \/ onloadStreakData
    \/ onloadJoy
    \/ saveStreakDataLoaded
    \/ saveStreakDataWrite
    \/ recordWritingDay
    \/ recordPublishDay
    \/ \E value \in BOOLEAN : saveSettings("showOnThisDay", value)
    \/ saveSettingsDone
    \/ checkOnThisDay
    \/ advanceDay(MaxPersistDays, MaxPersistDays)
    \/ reload

SpecPersist == InitPersist /\ [][NextPersist]_vars

\* ------------------------------------------- specification: settings tab

\* Most settings that differ from DEFAULT_SETTINGS at a time.
MaxChangedSettings == 1

\* the settings that differ from their defaults
ChangedSettings(st) == {k \in DOMAIN SettingValues : st[k] # DEFAULT_SETTINGS[k]}

\* a first run, or a start with the streak data of an earlier session
InitSettings ==
    /\ now = StartTime
    /\ statusFile = NULL
    /\ dispatchFolder = FALSE
    /\ queueFile = NULL
    /\ dataFile \in {NULL, SavedData(NULL, DEFAULT_SETTINGS, OldStreak)}
    /\ fileSize = NoFiles
    /\ vaultFiles = NewFiles(StartTime)
    /\ postFolders = {}
    /\ Constructed

\* Every handler of the settings tab, with the saves of the streak data that
\* onload starts and a blog file that is written.
NextSettings ==
    \/ onloadSettings
    \/ onloadStatus
    \/ onloadQueue
    \/ onloadStreakData
    \/ onloadJoy
    \/ saveStreakDataLoaded
    \/ saveStreakDataWrite
    \/ \E key \in DOMAIN SettingValues : \E value \in SettingValues[key] :
           /\ Cardinality(ChangedSettings([settings EXCEPT ![key] = value]))
                  <= MaxChangedSettings
           /\ saveSettings(key, value)
    \/ saveSettingsDone
    \/ modifyBlogFile("blog/a.md", 500)
    \/ reload

SpecSettings == InitSettings /\ [][NextSettings]_vars

\* ------------------------------------- specification: queue calls in steps

NextRace ==
    \/ onloadSettings
    \/ onloadStatus
    \/ onloadQueue
    \/ onloadStreakData
    \/ onloadJoy
    \/ saveStreakDataLoaded
    \/ saveStreakDataWrite
    \/ \E p \in Paths, n \in {UNDEFINED, "final pass"} : markReady(p, n)
    \/ \E p \in Paths : unmarkReady(p)
    \/ createFolderDone
    \/ writeQueueDone
    \/ debouncedStatusUpdateRun
    \/ advanceClock(MaxQueueClockSteps)

SpecRace == InitPlugin /\ [][NextRace]_vars

\* --------------------------------------------------- specification: timers

\* Number of ClockStep advances the timers specification allows.
MaxTimerClockSteps == 3

\* File events stop one clock step before the clock does.
NextTimers ==
    \/ onloadSettings
    \/ onloadStatus
    \/ onloadQueue
    \/ onloadStreakData
    \/ onloadJoy
    \/ saveStreakDataLoaded
    \/ saveStreakDataWrite
    \/ pollTick
    \/ /\ now < StartTime + MaxTimerClockSteps * ClockStep
       /\ modifyBlogFile("blog/a.md", 0)
    \/ /\ now < StartTime + MaxTimerClockSteps * ClockStep
       /\ deleteBlogFile("blog/b.md")
    \/ debouncedStatusUpdateRun
    \/ checkOnThisDay
    \/ onunload
    \/ advanceClock(MaxTimerClockSteps)

SpecTimers == InitPlugin /\ [][NextTimers]_vars

\* A write that was started completes, time passes, and a timer that is due
\* runs.
SpecTimersFair ==
    /\ SpecTimers
    /\ WF_vars(saveStreakDataLoaded)
    /\ WF_vars(saveStreakDataWrite)
    /\ WF_vars(advanceClock(MaxTimerClockSteps))
    /\ WF_vars(debouncedStatusUpdateRun)

\* ------------------------------------------- specification: publish streak

\* Days a persisted publishDates list may hold: today (a Saturday), the
\* Sunday that began this week, the Saturday before it, a day three weeks
\* back, 3 January of this year, and tomorrow.
PublishDays == {20231230, 20231224, 20231223, 20231212, 20230103, 20231231}

\* Longest of the short persisted lists.
MaxPublishLen == 3

\* Weeks covered by the long persisted list, one publish day a week.
LongRunWeeks == 54

\* one publish day in each of the last LongRunWeeks weeks, oldest first
WeeklyDates ==
    [i \in 1..LongRunWeeks |->
        FormatDay(StartTime \div SecondsPerDay - 7 * (LongRunWeeks - i))]

PublishLists ==
    {ds \in UNION {[1..n -> PublishDays] : n \in 0..MaxPublishLen} :
        \A i, j \in 1..Len(ds) : i # j => ds[i] # ds[j]}
    \cup {WeeklyDates}

\* Number of days the publish streak specification lets pass.
MaxPublishDays == 1

InitPublish ==
    /\ now = StartTime
    /\ statusFile = NULL
    /\ dispatchFolder = FALSE
    /\ queueFile = NULL
    /\ dataFile \in {SavedData(NULL, DEFAULT_SETTINGS,
                               [dates |-> <<>>, publishDates |-> ds])
                     : ds \in PublishLists}
    /\ fileSize = NoFiles
    /\ vaultFiles = NewFiles(StartTime)
    /\ postFolders = {}
    /\ Constructed

NextPublish ==
    \/ onloadSettings
    \/ onloadStatus
    \/ onloadQueue
    \/ onloadStreakData
    \/ onloadJoy
    \/ saveStreakDataLoaded
    \/ saveStreakDataWrite
    \/ advanceDay(MaxPublishDays, MaxPublishDays)
    \/ showStreakNotice

SpecPublish == InitPublish /\ [][NextPublish]_vars

\* ------------------------------------------------ specification: on this day

\* front-matter dates: none, empty, no date, 30 December of two earlier
\* years, of this year and of next year, an impossible day, and other days
DateValues ==
    {NoDateField, EmptyDate, InvalidDate,
     DateString(2021, 12, 30), DateString(2022, 12, 30), DateString(2023, 12, 30),
     DateString(2024, 12, 30), DateString(2022, 12, 31), DateString(2022, 11, 31),
     DateString(2022, 6, 15)}

PostUrls == {UNDEFINED, "https://ejfox.com/blog/a"}

DatedFiles ==
    [Paths -> {[NewFile(StartTime) EXCEPT !.frontmatter =
                    [published_url |-> u, date |-> d]]
                  : u \in PostUrls, d \in DateValues}]

\* Number of ClockStep advances the on-this-day specification allows.
MaxOnThisDayClockSteps == 2

InitOnThisDay ==
    /\ now = StartTime
    /\ statusFile \in {NULL, Stringify(Snapshot(StartTime, NULL_SLUG, 15000))}
    /\ dispatchFolder = (statusFile # NULL)
    /\ queueFile = NULL
    /\ dataFile \in {NULL, [DEFAULT_SETTINGS EXCEPT !.showOnThisDay = FALSE]}
    /\ fileSize = NoFiles
    /\ vaultFiles \in DatedFiles
    /\ postFolders = {}
    /\ Constructed

NextOnThisDay ==
    \/ onloadSettings
    \/ onloadStatus
    \/ finishLoadDispatchStatus
    \/ onloadQueue
    \/ onloadStreakData
    \/ onloadJoy
    \/ saveStreakDataLoaded
    \/ saveStreakDataWrite
    \/ checkOnThisDay
    \/ advanceClock(MaxOnThisDayClockSteps)

SpecOnThisDay == InitOnThisDay /\ [][NextOnThisDay]_vars

\* ---------------------------------------- specification: daily word count

\* cached sections of a file: a heading, a paragraph of three lines and a
\* code block, 40 words by the approximation
SomeSections ==
    <<[type |-> "heading", startLine |-> 0, endLine |-> 0],
      [type |-> "paragraph", startLine |-> 2, endLine |-> 4],
      [type |-> "code", startLine |-> 6, endLine |-> 9]>>

\* files[] of a snapshot: two vault files and one that is not in the vault
ScannedFiles(k) ==
    <<[path |-> "blog/a.md", word_count |-> 120 + k],
      [path |-> "blog/b.md", word_count |-> 80],
      [path |-> "blog/gone.md", word_count |-> 40]>>

\* status.json written ten minutes before the plugin starts
OldStatusFile ==
    Stringify([Snapshot(StartTime - 600, NULL_SLUG, 15000) EXCEPT !.files = ScannedFiles(0)])

\* Number of ClockStep advances the daily word count specification allows.
MaxDailyClockSteps == 2

InitDaily ==
    /\ now = StartTime
    /\ statusFile \in {NULL, OldStatusFile}
    /\ dispatchFolder = (statusFile # NULL)
    /\ queueFile = NULL
    /\ dataFile = [DEFAULT_SETTINGS EXCEPT !.wordCountGoal = 500,
                                            !.celebrateMilestones = FALSE]
    /\ fileSize = NoFiles
    /\ vaultFiles = NewFiles(StartTime)
    /\ postFolders = {}
    /\ Constructed

NextDaily ==
    \/ onloadSettings
    \/ onloadStatus
    \/ finishLoadDispatchStatus
    \/ onloadQueue
    \/ onloadStreakData
    \/ onloadJoy
    \/ saveStreakDataLoaded
    \/ saveStreakDataWrite
    \/ pollTick
    \/ openDispatchPanel
    \/ showSessionStats
    \/ modifyBlogFile("blog/a.md", 500)
    \/ debouncedStatusUpdateRun
    \/ sectionsChanged("blog/a.md", SomeSections)
    \/ externalWriteStatusFiles(ScannedFiles(5))
    \/ advanceClock(MaxDailyClockSteps)

SpecDaily == InitDaily /\ [][NextDaily]_vars

\* ------------------------------------------------------------------ claims

\* the last two calls were markReady(p, _) and then unmarkReady(p)
MarkThenUnmark ==
    /\ Len(calls) = 2
    /\ calls[1].op = "markReady"
    /\ calls[2].op = "unmarkReady"
    /\ calls[1].path = calls[2].path

\* p was neither in `ready` nor a key of `notes` before the markReady call
NotQueuedBefore ==
    /\ ~Includes(calls[1].before.ready, calls[1].path)
    /\ calls[1].path \notin DOMAIN calls[1].before.notes

\* C1 as stated: markReady(p) followed by unmarkReady(p) leaves `ready` and
\* `notes` as they were before the markReady call, for every queue state,
\* also when p was already in `ready` with a note.
C1_RoundTripAlways ==
    MarkThenUnmark => QueueView(dispatchQueue) = calls[1].before

\* C1 amended: markReady(p) followed by unmarkReady(p) leaves `ready` and
\* `notes` as they were before the markReady call whenever p was not queued
\* (not in `ready`, no note) before the pair of calls.
C1_RoundTrip ==
    (MarkThenUnmark /\ NotQueuedBefore)
        => QueueView(dispatchQueue) = calls[1].before

\* C1 witness: the pair of calls ran on a queue that held another path.
C1_Witness ==
    /\ MarkThenUnmark
    /\ NotQueuedBefore
    /\ Len(calls[1].before.ready) > 0
    /\ QueueView(dispatchQueue) = calls[1].before

\* the last two calls were markReady(p, n1) and markReady(p, n2), n1 # n2
MarkTwice ==
    /\ Len(calls) = 2
    /\ calls[1].op = "markReady"
    /\ calls[2].op = "markReady"
    /\ calls[1].path = calls[2].path
    /\ calls[1].note # calls[2].note

\* C2 as stated: after markReady(p, n1) and markReady(p, n2) with n1 # n2,
\* p is exactly once in `ready` and notes[p] is n2.
C2_SecondNoteAlways ==
    MarkTwice =>
        /\ Count(dispatchQueue.ready, calls[2].path) = 1
        /\ dispatchQueue.notes[calls[2].path] = calls[2].note

\* C2 amended: after markReady(p, n1) and markReady(p, n2) with n1 # n2, p is
\* exactly once in `ready` and notes[p] is n2 when n2 is a non-empty text, and
\* the default "Ready for review" when n2 is omitted or empty.
C2_LastNoteWins ==
    MarkTwice =>
        /\ Count(dispatchQueue.ready, calls[2].path) = 1
        /\ dispatchQueue.notes[calls[2].path] =
               IF calls[2].note \in {UNDEFINED, ""} THEN DEFAULT_NOTE
               ELSE calls[2].note

\* C2 witness: two different texts were given, the second one is the note.
C2_Witness ==
    /\ MarkTwice
    /\ Truthy(calls[1].note)
    /\ Truthy(calls[2].note)
    /\ Count(dispatchQueue.ready, calls[2].path) = 1
    /\ dispatchQueue.notes[calls[2].path] = calls[2].note

\* the entries of a list are pairwise different
Distinct(list) == Cardinality({list[i] : i \in 1..Len(list)}) = Len(list)

\* C3: each streak list holds each day at most once, never more than 365
\* entries, and is exactly the most recent (at most 365) of the days recorded,
\* in the order they were recorded.
C3_StreakLists ==
    /\ Distinct(streakData.dates)
    /\ Distinct(streakData.publishDates)
    /\ Len(streakData.dates) <= 365
    /\ Len(streakData.publishDates) <= 365
    /\ streakData.dates = SliceLast(recorded.dates, 365)
    /\ streakData.publishDates = SliceLast(recorded.publishDates, 365)
    /\ Distinct(recorded.dates)
    /\ Distinct(recorded.publishDates)

\* C3 witness: more than 365 days were recorded in both lists, with a gap
\* among them, so the oldest were dropped.
C3_Witness ==
    /\ Len(recorded.dates) > 365
    /\ Len(recorded.publishDates) > 365
    /\ Len(streakData.dates) = 365
    /\ streakData.dates[1] # recorded.dates[1]
    /\ streakData.publishDates[1] # recorded.publishDates[1]
    /\ \E i \in 1..2 : ParseDay(recorded.dates[i + 1]) > ParseDay(recorded.dates[i]) + 1

\* the last call was showStreakNotice
StreakShown == Len(calls) > 0 /\ calls[Len(calls)].op = "showStreakNotice"
LastCall == calls[Len(calls)]

\* C4: getWritingStreak() is 0 whenever today is absent from `dates`,
\* whatever earlier or later days the list holds.
C4_NoStreakWithoutToday ==
    (StreakShown /\ ~Includes(LastCall.dates, FormatDay(LastCall.day)))
        => LastCall.writingStreak = 0

\* C4 witness: the streak was asked for with a run of days ending yesterday
\* and with tomorrow in the list, and no entry for today.
C4_Witness ==
    /\ StreakShown
    /\ ~Includes(LastCall.dates, FormatDay(LastCall.day))
    /\ Includes(LastCall.dates, FormatDay(LastCall.day - 1))
    /\ Includes(LastCall.dates, FormatDay(LastCall.day - 2))
    /\ Includes(LastCall.dates, FormatDay(LastCall.day + 1))
    /\ LastCall.writingStreak = 0

\* the list holds the n consecutive days ending on `day` and not the day before
RunOf(dates, day, n) ==
    /\ \A k \in 0..(n - 1) : Includes(dates, FormatDay(day - k))
    /\ ~Includes(dates, FormatDay(day - n))

\* C5: getWritingStreak() is N whenever `dates` holds the N consecutive days
\* ending today and no entry for the (N+1)-th day back, for every N >= 1 and
\* every order of the list.
C5_StreakIsRunLength ==
    StreakShown =>
        \A n \in 1..(MaxDatesLen + MaxQueryDays + 1) :
            RunOf(LastCall.dates, LastCall.day, n) => LastCall.writingStreak = n

\* C5 witness: a run of three days ending today that crosses the year's end,
\* stored out of order, with an older day behind a gap; the streak is 3.
C5_Witness ==
    /\ StreakShown
    /\ FormatDay(LastCall.day) = 20240101
    /\ RunOf(LastCall.dates, LastCall.day, 3)
    /\ Len(LastCall.dates) > 3
    /\ LastCall.dates[1] > LastCall.dates[2]
    /\ LastCall.writingStreak = 3

\* C6: isDispatchFresh() is true iff a snapshot is held and
\* now - updated_at <= 5 minutes; a snapshot exactly 5 minutes old is fresh.
C6_FreshUpToFiveMinutes ==
    isDispatchFresh(dispatchStatus, now)
        <=> (dispatchStatus # NULL /\ now - dispatchStatus.updated_at <= 300)

\* C7: after a refresh that found no status file, or could not read or parse
\* it, no snapshot is held.
C7_FailedRefreshClears ==
    (lastLoad # NULL /\ lastLoad.outcome \in {"absent", "failed"})
        => dispatchStatus = NULL

\* a step that completes a successful refresh
LoadSucceeded ==
    statusReadPending' < statusReadPending /\ lastLoad'.outcome = "ok"

\* last_publish of the snapshot held before the refresh; null when none is held
HeldLastPublish ==
    IF dispatchStatus = NULL THEN NULL_SLUG ELSE dispatchStatus.last_publish

\* C8 as stated: a successful refresh calls celebratePublish (which records a
\* publish day) exactly when the new last_publish differs from the held one,
\* and does so before the held snapshot is replaced.
C8_SignalIffChanged ==
    [][LoadSucceeded =>
          /\ lastLoad'.signal <=> (dispatchStatus'.last_publish # HeldLastPublish)
          /\ lastLoad'.signal =>
                 (lastLoad'.sawOld /\ Includes(streakData'.publishDates, Today))
      ]_vars

\* C8 amended: a successful refresh calls celebratePublish (which records a
\* publish day) exactly when the new last_publish is not null nor empty,
\* streak tracking is enabled, and the new last_publish differs from the held one (or no
\* snapshot is held); it does so before the held snapshot is replaced.
C8_SignalIffNewPublish ==
    [][LoadSucceeded =>
          /\ lastLoad'.signal <=>
                 /\ dispatchStatus'.last_publish # NULL_SLUG
                 /\ dispatchStatus'.last_publish # ""
                 /\ settings.enableStreaks
                 /\ dispatchStatus'.last_publish # HeldLastPublish
          /\ lastLoad'.signal =>
                 (lastLoad'.sawOld /\ Includes(streakData'.publishDates, Today))
          /\ dispatchStatus' = ParseJSON(statusFile)
      ]_vars

\* C8 witness: a refresh replaced a held snapshot by one with another
\* last_publish and signalled the publish, on a second publish day.
C8_Witness ==
    /\ lastLoad # NULL
    /\ lastLoad.outcome = "ok"
    /\ lastLoad.held
    /\ lastLoad.signal
    /\ lastLoad.sawOld
    /\ dispatchStatus.last_publish = "post-b"
    /\ Len(streakData.publishDates) = 2

\* the last two calls were milestone checks, at 480 and then at 510 session words
From480To510 ==
    /\ Len(calls) = 2
    /\ calls[1].op = "checkSessionMilestones"
    /\ calls[2].op = "checkSessionMilestones"
    /\ calls[1].words = 480
    /\ calls[2].words = 510

\* C9 as stated: when the session total goes from 480 to 510 between two
\* consecutive checks, the check at 510 fires the 500-word celebration,
\* whatever the earlier history of the session.
C9_Fires500Always == From480To510 => calls[2].fired = 500

\* C9 amended: when the session total goes from 480 to 510 between two
\* consecutive checks, the check at 510 fires the 500-word celebration exactly
\* when 250 was the last milestone celebrated before it; when only 100 had been
\* celebrated it fires the 250-word celebration, and when 500 or more had been
\* celebrated it fires none.
C9_Fires500After250 ==
    From480To510 =>
        /\ calls[2].fired = 500 <=> calls[2].before = 250
        /\ calls[2].before = 100 => calls[2].fired = 250
        /\ calls[2].before >= 500 => calls[2].fired = 0
        /\ calls[2].before \in {100, 250, 500, 750, 1000, 1500, 2000, 3000, 5000}

\* C9 witness: the total went from 480 to 510 with 250 celebrated, and the
\* check at 510 fired the 500-word celebration.
C9_Witness ==
    /\ From480To510
    /\ calls[2].before = 250
    /\ calls[2].fired = 500
    /\ lastMilestoneCelebrated = 500

\* C10: within a session every celebration is of a higher milestone than all
\* celebrated before it, and the celebrated state goes back only when the
\* plugin is reloaded.
C10_NoRefire ==
    [][/\ Len(celebrated') > Len(celebrated) =>
              \A i \in 1..Len(celebrated) :
                  celebrated'[Len(celebrated')] > celebrated[i]
       /\ (lastMilestoneCelebrated' < lastMilestoneCelebrated
              \/ Len(celebrated') < Len(celebrated)) => pc' = "constructed"
      ]_vars

\* C10 witness: after the 100-, 250- and 500-word celebrations the session
\* total dropped to nothing and rose to 100 again, and nothing was celebrated.
C10_Witness ==
    /\ celebrated = <<100, 250, 500>>
    /\ Len(calls) = 2
    /\ calls[1].op = "checkSessionMilestones"
    /\ calls[1].words = 0
    /\ calls[2].op = "checkSessionMilestones"
    /\ calls[2].words = 100
    /\ calls[2].fired = 0

\* a step in which the modify handler ran checkSessionMilestones
MilestoneCheck ==
    /\ "milestones" \in registered
    /\ settings.celebrateMilestones
    /\ \E f \in Paths, size \in Sizes : modifyBlogFile(f, size)

\* C11: each call of checkSessionMilestones fires at most one celebration; the
\* one it fires is the lowest threshold at or below the session total that
\* was not celebrated in this session, and it fires none when there is none.
C11_LowestOpenThreshold ==
    [][MilestoneCheck =>
          LET open == {m \in {milestones[i] : i \in 1..Len(milestones)} :
                          /\ m <= sessionWordsWritten'
                          /\ \A i \in 1..Len(celebrated) : celebrated[i] # m}
          IN  IF open = {}
              THEN celebrated' = celebrated
              ELSE celebrated' =
                       Append(celebrated, CHOOSE m \in open : \A k \in open : m <= k)
      ]_vars

\* C11 witness: with 510 session words reached in one step from 0, the second
\* check fired the 250-word celebration, after the 100-word one.
C11_Witness ==
    /\ Len(calls) = 2
    /\ calls[1].op = "checkSessionMilestones"
    /\ calls[2].op = "checkSessionMilestones"
    /\ calls[1].words = 510
    /\ calls[1].fired = 100
    /\ calls[2].words = 510
    /\ calls[2].fired = 250
    /\ celebrated = <<100, 250>>

\* a step that is a complete markReady(p, _) call, or unmarkReady(p) call
MarkStep(p) == \E n \in NoteArgs : markReady(p, n)
UnmarkStep(p) == unmarkReady(p)

\* C14: unmarkReady(p) for a path p that is not in `ready` completes and leaves
\* the queue (`ready`, `notes` and `updated_at`) as it was.
C14_UnmarkAbsentNoOp ==
    [][\A p \in Paths :
          (UnmarkStep(p) /\ ~isFileReady(p)) => dispatchQueue' = dispatchQueue
      ]_vars

\* C15: when the save of a markReady or unmarkReady call completes, no other
\* call being in progress, the call ends without error, queue.json holds the
\* in-memory queue, whose updated_at is the time of the call, and the folder
\* .dispatch exists; a queue file that was there is overwritten.
C15_PersistedAfterCall ==
    [][(writeQueueDone /\ Len(queueSaves) = 1) =>
              /\ queueSaves'[1].at = "done"
              /\ queueFile' # NULL
              /\ ParseJSON(queueFile').ready = dispatchQueue'.ready
              /\ ParseJSON(queueFile').notes = dispatchQueue'.notes
              /\ ParseJSON(queueFile').updated_at = now
              /\ dispatchQueue'.updated_at = now
              /\ dispatchFolder'
      ]_vars

\* C15 witness: a later call overwrote the queue file an earlier call had
\* created, with a later updated_at.
C15_Witness ==
    /\ Len(calls) = 2
    /\ calls[1].op = "markReady"
    /\ calls[2].op = "unmarkReady"
    /\ calls[1].path # calls[2].path
    /\ calls[2].before.ready = <<calls[2].path, calls[1].path>>
    /\ dispatchFolder
    /\ queueSaves = <<[content |-> queueFile, at |-> "done", kind |-> "modify"]>>
    /\ queueFile = Stringify(dispatchQueue)
    /\ dispatchQueue.updated_at = now
    /\ now > StartTime

\* C16: `ready` never holds a path twice; a markReady(p) call makes
\* isFileReady(p) true, an unmarkReady(p) call makes it false, and neither
\* changes isFileReady of another path.
C16_ReadyUnique ==
    [][/\ dispatchQueue' # NULL => Distinct(dispatchQueue'.ready)
       /\ \A p \in Paths :
              /\ MarkStep(p) =>
                     /\ isFileReady(p)'
                     /\ \A q \in Paths \ {p} : isFileReady(q)' = isFileReady(q)
              /\ UnmarkStep(p) =>
                     /\ ~isFileReady(p)'
                     /\ \A q \in Paths \ {p} : isFileReady(q)' = isFileReady(q)
      ]_vars

\* C16 witness: a path was marked twice and another one marked and unmarked;
\* the first is once in `ready`, the other is not ready.
C16_Witness ==
    /\ Len(calls) = 2
    /\ calls[1].op = "markReady"
    /\ calls[1].path = "blog/a.md"
    /\ Includes(calls[1].before.ready, "blog/a.md")
    /\ Includes(calls[1].before.ready, "blog/b.md")
    /\ calls[2].op = "unmarkReady"
    /\ calls[2].path = "blog/b.md"
    /\ dispatchQueue.ready = <<"blog/a.md">>
    /\ isFileReady("blog/a.md")
    /\ ~isFileReady("blog/b.md")

\* C17: the keys of `notes` are exactly the entries of `ready`.
C17_NotesMatchReady ==
    dispatchQueue # NULL =>
        DOMAIN dispatchQueue.notes =
            {dispatchQueue.ready[i] : i \in 1..Len(dispatchQueue.ready)}

\* C17 witness: after a markReady without a note and an unmarkReady of another
\* path, the one path left in `ready` is the one key of `notes`.
C17_Witness ==
    /\ Len(calls) = 2
    /\ calls[1].op = "markReady"
    /\ calls[1].note = UNDEFINED
    /\ ~Includes(calls[1].before.ready, calls[1].path)
    /\ calls[2].op = "unmarkReady"
    /\ calls[2].path # calls[1].path
    /\ Includes(calls[2].before.ready, calls[2].path)
    /\ dispatchQueue.ready = <<calls[1].path>>
    /\ DOMAIN dispatchQueue.notes = {calls[1].path}

\* a step in which updateStatusBar() ran with a status bar item to write to
StatusBarUpdated ==
    /\ \/ pollTick
       \/ onloadQueue
       \/ debouncedStatusUpdateRun
       \/ /\ saveSettingsDone
          /\ \A i \in 1..Len(settingsSaves) :
                 settingsSaves[i].key \in {"statusBarFormat", "wordCountGoal"}
    /\ statusBarText' # NULL
    /\ settings.showStatusBar

\* the snapshot is held and fresh, absent or stale, when the step is taken
FreshHeld == dispatchStatus # NULL /\ isDispatchFresh(dispatchStatus, now)

\* the last call, after the step
PanelOpened == openDispatchPanel /\ calls'[Len(calls')].op = "openDispatchPanel"
PanelShown == calls'[Len(calls')]

\* the ready listing shows each queued path, in order, with its note
ListingShowsQueue ==
    /\ Len(PanelShown.ready) = Len(dispatchQueue.ready)
    /\ \A i \in 1..Len(dispatchQueue.ready) :
           /\ PanelShown.ready[i].path = dispatchQueue.ready[i]
           /\ PanelShown.ready[i].note = dispatchQueue.notes[dispatchQueue.ready[i]]

\* C12 as stated: whenever the held snapshot is fresh, updateStatusBar and the
\* dashboard panel show the snapshot's stats.drafts and stats.published
\* whatever the local scan would give (the counts format reads "3 drafts, 7
\* live" with a marker in front), and the panel lists each queued path with
\* its note.
C12_FreshCountsAlways ==
    [][/\ (StatusBarUpdated /\ FreshHeld /\ settings.statusBarFormat = "counts") =>
              statusBarText'.text = [prefix |-> TRUE,
                                     drafts |-> dispatchStatus.stats.drafts,
                                     live |-> dispatchStatus.stats.published]
       /\ (PanelOpened /\ FreshHeld) =>
              /\ PanelShown.drafts = dispatchStatus.stats.drafts
              /\ PanelShown.published = dispatchStatus.stats.published
              /\ ListingShowsQueue
      ]_vars

\* C12 amended: whenever the held snapshot is fresh, the dashboard panel shows
\* the snapshot's stats.drafts and stats.published and lists each queued path
\* with its note, and so does updateStatusBar (text in the counts format, and
\* tooltip) provided the vault has at least one blog file; with no blog file
\* updateStatusBar empties the text and shows no counts.
C12_FreshCountsWithFiles ==
    [][/\ (StatusBarUpdated /\ FreshHeld /\ DOMAIN vaultFiles # {}) =>
              /\ statusBarText'.tooltip.drafts = dispatchStatus.stats.drafts
              /\ statusBarText'.tooltip.published = dispatchStatus.stats.published
              /\ settings.statusBarFormat = "counts" =>
                     statusBarText'.text = [prefix |-> TRUE,
                                            drafts |-> dispatchStatus.stats.drafts,
                                            live |-> dispatchStatus.stats.published]
       /\ (StatusBarUpdated /\ DOMAIN vaultFiles = {}) =>
              statusBarText'.text = EMPTY_TEXT
       /\ (PanelOpened /\ FreshHeld) =>
              /\ PanelShown.drafts = dispatchStatus.stats.drafts
              /\ PanelShown.published = dispatchStatus.stats.published
              /\ ListingShowsQueue
      ]_vars

\* C12 witness: with a fresh snapshot of 3 drafts and 7 published and two
\* local files, one of them published, the status bar reads 3 drafts, 7 live
\* and the panel shows 3 and 7 and the queued path with its note.
C12_Witness ==
    /\ FreshHeld
    /\ Cardinality(DOMAIN vaultFiles) = 2
    /\ \E f \in DOMAIN vaultFiles : Truthy(vaultFiles[f].frontmatter.published_url)
    /\ statusBarText # NULL
    /\ statusBarText.text = [prefix |-> TRUE, drafts |-> 3, live |-> 7]
    /\ Len(calls) > 0
    /\ calls[Len(calls)].op = "openDispatchPanel"
    /\ calls[Len(calls)].drafts = 3
    /\ calls[Len(calls)].published = 7
    /\ calls[Len(calls)].ready = <<[path |-> "blog/a.md", note |-> "final pass"]>>

\* the files whose front matter has the published_url key / a non-empty value
FilesWithUrlKey ==
    {f \in DOMAIN vaultFiles : vaultFiles[f].frontmatter.published_url # UNDEFINED}
FilesWithUrl ==
    {f \in DOMAIN vaultFiles : vaultFiles[f].frontmatter.published_url \notin {UNDEFINED, ""}}

\* C13 as stated: whenever no fresh snapshot is held, published is the number
\* of blog files whose front matter has a published_url field and drafts the
\* number of the others, and total_words is zero or not shown.
C13_ScanCountsByField ==
    [][/\ (StatusBarUpdated /\ ~FreshHeld /\ DOMAIN vaultFiles # {}) =>
              /\ statusBarText'.tooltip.published = Cardinality(FilesWithUrlKey)
              /\ statusBarText'.tooltip.drafts =
                     Cardinality((DOMAIN vaultFiles) \ FilesWithUrlKey)
              /\ statusBarText'.tooltip.totalWords = 0
       /\ (PanelOpened /\ ~FreshHeld) =>
              /\ PanelShown.published = Cardinality(FilesWithUrlKey)
              /\ PanelShown.drafts = Cardinality((DOMAIN vaultFiles) \ FilesWithUrlKey)
              /\ PanelShown.totalWords = 0
      ]_vars

\* C13 amended: whenever no fresh snapshot is held, published is the number of
\* blog files whose front matter has a non-empty published_url and drafts the
\* number of the others, so drafts + published is the number of blog files,
\* and total_words is zero or not shown.
C13_ScanCountsByValue ==
    [][/\ (StatusBarUpdated /\ ~FreshHeld /\ DOMAIN vaultFiles # {}) =>
              /\ statusBarText'.tooltip.published = Cardinality(FilesWithUrl)
              /\ statusBarText'.tooltip.drafts =
                     Cardinality((DOMAIN vaultFiles) \ FilesWithUrl)
              /\ statusBarText'.tooltip.drafts + statusBarText'.tooltip.published
                     = Cardinality(DOMAIN vaultFiles)
              /\ statusBarText'.tooltip.totalWords = 0
       /\ (PanelOpened /\ ~FreshHeld) =>
              /\ PanelShown.published = Cardinality(FilesWithUrl)
              /\ PanelShown.drafts = Cardinality((DOMAIN vaultFiles) \ FilesWithUrl)
              /\ PanelShown.drafts + PanelShown.published
                     = Cardinality(DOMAIN vaultFiles)
              /\ PanelShown.totalWords = 0
      ]_vars

\* C13 witness: a stale snapshot is held and the vault has five files, two
\* with a published_url and one with an empty one; the status bar and the
\* panel count 3 drafts and 2 published.
C13_Witness ==
    /\ dispatchStatus # NULL
    /\ ~isDispatchFresh(dispatchStatus, now)
    /\ Cardinality(DOMAIN vaultFiles) = 5
    /\ Cardinality(FilesWithUrl) = 2
    /\ Cardinality(FilesWithUrlKey) = 3
    /\ statusBarText # NULL
    /\ statusBarText.tooltip # NULL
    /\ statusBarText.tooltip.drafts = 3
    /\ statusBarText.tooltip.published = 2
    /\ Len(calls) > 0
    /\ calls[Len(calls)].op = "openDispatchPanel"
    /\ calls[Len(calls)].drafts = 3
    /\ calls[Len(calls)].published = 2
    /\ calls[Len(calls)].totalWords = 0

\* a step in which getDailyWordCount() was called: by updateStatusBar, or by
\* the dashboard panel when a daily goal is set
DailyCountCalled ==
    \/ StatusBarUpdated /\ DOMAIN vaultFiles # {}
    \/ PanelOpened /\ settings.wordCountGoal > 0

\* the value the call returned, as the step shows it
DailyCountShown ==
    IF PanelOpened THEN PanelShown.todayWords ELSE statusBarText'.text.wToday

\* C18: when getDailyWordCount() recomputes, the result is the sum of the
\* snapshot's word_count over the files modified today if a fresh snapshot is
\* held, and the approximation from the cached sections when the snapshot is
\* absent or stale.
C18_SnapshotOnlyIfFresh ==
    [][(DailyCountCalled /\ dailyWordCountDate # Today) =>
          dailyWordCountCache' =
              IF FreshHeld
              THEN SnapshotWords(dispatchStatus.files, 1, vaultFiles, now)
              ELSE ApproxWords(vaultFiles, DOMAIN vaultFiles, now)
      ]_vars

\* C19: a call of getDailyWordCount() on the day the cache is stamped with
\* returns the cached value and leaves the cache as it is, whatever the files
\* and the snapshot are by then; a call on another day recomputes, returns
\* the new value, and stamps the cache with today.
C19_CachedPerDay ==
    [][/\ DailyCountCalled =>
              IF dailyWordCountDate = Today
              THEN /\ DailyCountShown = dailyWordCountCache
                   /\ dailyWordCountCache' = dailyWordCountCache
                   /\ dailyWordCountDate' = dailyWordCountDate
              ELSE /\ dailyWordCountDate' = Today
                   /\ DailyCountShown = dailyWordCountCache'
                   /\ dailyWordCountCache' =
                          IF dispatchStatus # NULL
                          THEN SnapshotWords(dispatchStatus.files, 1, vaultFiles, now)
                          ELSE ApproxWords(vaultFiles, DOMAIN vaultFiles, now)
       /\ (showSessionStats /\ settings.wordCountGoal > 0) =>
              IF dailyWordCountDate = Today
              THEN /\ dailyWordCountCache' = dailyWordCountCache
                   /\ dailyWordCountDate' = dailyWordCountDate
              ELSE /\ dailyWordCountDate' = Today
                   /\ dailyWordCountCache' =
                          IF dispatchStatus # NULL
                          THEN SnapshotWords(dispatchStatus.files, 1, vaultFiles, now)
                          ELSE ApproxWords(vaultFiles, DOMAIN vaultFiles, now)
      ]_vars

\* C19 witness: the cache was stamped again after midnight; then a file was
\* modified and the panel opened, which showed the cached value although a
\* recomputation would give another.
C19_Witness ==
    /\ Len(calls) > 0
    /\ calls[Len(calls)].op = "openDispatchPanel"
    /\ calls[Len(calls)].todayWords = dailyWordCountCache
    /\ dailyWordCountDate = Today
    /\ Today = 20231231
    /\ ModifiedToday(vaultFiles["blog/a.md"], now)
    /\ RecomputeDailyWords(dispatchStatus, vaultFiles, now) # dailyWordCountCache

\* a step in which checkOnThisDay ran, and what it listed
OnThisDayChecked ==
    /\ calls' # calls
    /\ calls'[Len(calls')].op = "checkOnThisDay"

OnThisDayLines == calls'[Len(calls')].lines

\* the published files dated on today's month and day in an earlier year
PriorYearPosts ==
    {f \in DOMAIN vaultFiles :
        LET fm == vaultFiles[f].frontmatter
        IN  /\ fm.published_url \notin {UNDEFINED, ""}
            /\ "y" \in DOMAIN fm.date
            /\ fm.date.m * 100 + fm.date.d = Today % 10000
            /\ fm.date.y < Today \div 10000}

\* C20: checkOnThisDay lists exactly the published files whose front-matter
\* date has today's month and day and a year before this year, never this
\* year and never a later year, each once, in ascending order of the year.
C20_PriorYearsAscending ==
    [][OnThisDayChecked =>
          /\ {OnThisDayLines[i].file : i \in 1..Len(OnThisDayLines)} = PriorYearPosts
          /\ Len(OnThisDayLines) = Cardinality(PriorYearPosts)
          /\ \A i, j \in 1..Len(OnThisDayLines) :
                 i < j => OnThisDayLines[i].year <= OnThisDayLines[j].year
      ]_vars

\* the weeks, Sunday to Saturday, that hold a day of the list, by the day
\* number of their Sunday
PublishWeeks(dates) ==
    {ParseDay(dates[i]) - ((ParseDay(dates[i]) + 4) % 7) : i \in 1..Len(dates)}

\* the number of consecutive weeks holding a publish day, counted back from
\* the week of `day`, at most `cap`
RECURSIVE WeeksRun(_, _, _)
WeeksRun(weeks, sunday, cap) ==
    IF cap = 0 \/ sunday \notin weeks THEN 0
    ELSE 1 + WeeksRun(weeks, sunday - 7, cap - 1)

\* C21: getPublishStreak() is the number of consecutive calendar weeks with
\* a publish day, counted back from the current week up to the first week
\* without one, at most 52; it is 0 when the current week has no publish day.
C21_PublishStreakIsWeeksRun ==
    StreakShown =>
        LastCall.publishStreak =
            WeeksRun(PublishWeeks(LastCall.publishDates),
                     LastCall.day - ((LastCall.day + 4) % 7), 52)

\* C22: when createBlogPostFromModal is called for a slug whose path exists
\* in the vault, the notice "File already exists" is shown and nothing else
\* happens: no file and no folder is created, the existing file is as it was,
\* no create event is raised and no writing day is recorded or saved.
C22_ExistingPostRejected ==
    [][\A slug \in PostSlugs :
          (/\ createBlogPostFromModal(slug, "Hello")
           /\ PostPath(slug, now) \in DOMAIN vaultFiles)
          => /\ postCreates' = postCreates
             /\ Len(calls') > 0
             /\ calls'[Len(calls')].op = "createBlogPostFromModal"
             /\ calls'[Len(calls')].notice = "File already exists"
             /\ vaultFiles' = vaultFiles
             /\ postFolders' = postFolders
             /\ fileSize' = fileSize
             /\ debounceTimers' = debounceTimers
             /\ streakData' = streakData
             /\ streakSavesPending' = streakSavesPending
             /\ dataFile' = dataFile
      ]_vars

\* C22 witness: a creation was rejected on a day that is not in the streak
\* list yet, for a path whose file was written before that day.
C22_Witness ==
    /\ Len(calls) > 0
    /\ calls[Len(calls)].op = "createBlogPostFromModal"
    /\ calls[Len(calls)].notice = "File already exists"
    /\ calls[Len(calls)].path \in DOMAIN vaultFiles
    /\ vaultFiles[calls[Len(calls)].path].mtime < now
    /\ settings.enableStreaks
    /\ ~Includes(streakData.dates, Today)

\* C23: at most one recomputation of debouncedStatusUpdate is pending at
\* any time, and a recomputation runs only when a file event has arrived
\* since the one before it, so the events of a burst, which arrive before a
\* timer runs, cause one recomputation.
C23_OnePendingOnePerBurst ==
    /\ [](Len(debounceTimers) <= 1)
    /\ [][debouncedStatusUpdateRun => fileEvents.waiting > 0]_vars

\* C23 witness: several events arrived before the timer ran, one
\* recomputation followed them, and nothing is pending.
C23_Witness ==
    /\ fileEvents.served = 2
    /\ fileEvents.waiting = 0
    /\ debounceTimers = <<>>
    /\ statusBarText # NULL

\* C24: a recomputation runs only when the timeout has passed since the
\* latest file event, and every file event is followed by a recomputation
\* once time passes without further events.
C24_TrailingEdge ==
    /\ [][debouncedStatusUpdateRun =>
             now >= fileEvents.last + DEBOUNCE_TIMEOUT]_vars
    /\ (fileEvents.waiting > 0 ~> fileEvents.waiting = 0)

\* C24 witness: one file event was followed by a recomputation, after the
\* plugin was unloaded or before.
C24_Witness ==
    /\ fileEvents.served = 1
    /\ fileEvents.waiting = 0
    /\ debounceTimers = <<>>
    /\ now > StartTime

\* C27: after onunload no timer callback of the plugin runs: the poll does
\* not tick, no pending recomputation of debouncedStatusUpdate runs and the
\* delayed checkOnThisDay does not run.
C27_NoCallbackAfterUnload ==
    [][pc = "unloaded" =>
          /\ ~pollTick
          /\ debounceTimers' = debounceTimers
          /\ onThisDayTimer'.own \in {onThisDayTimer.own, "due"}
      ]_vars

\* C25: the status bar recomputation of a poll tick uses the snapshot that
\* the tick loads from status.json, not the one held before the tick.
C25_TickShowsLoadedSnapshot ==
    [][(pollTick /\ statusFile # NULL /\ statusFile # MALFORMED) =>
          statusBarText' =
              UpdateStatusBar(statusBarText, settings, ParseJSON(statusFile),
                              vaultFiles, dailyWordCountDate, dailyWordCountCache,
                              now).bar
      ]_vars

\* C26: when two markReady / unmarkReady calls are made before the save of
\* the first has finished, both end without error, and once both have ended
\* queue.json holds the queue as it is in memory, with both mutations.
C26_NoRaceBetweenCalls ==
    (Len(queueSaves) = 2 /\ ~QueueSavePending) =>
        /\ \A i \in 1..Len(queueSaves) : queueSaves[i].at = "done"
        /\ queueFile = Stringify(dispatchQueue)

\* C28: after any recordWritingDay / recordPublishDay calls and settings
\* changes, once the pending saves have finished data.json holds a streakData
\* equal to the one in memory.
C28_SettingsKeepStreakData ==
    (pc = "running" /\ streakSavesPending = <<>> /\ settingsSaves = <<>>) =>
        /\ dataFile # NULL
        /\ "streakData" \in DOMAIN dataFile
        /\ dataFile.streakData = streakData

\* C29: after onload and its pending saves, the streak data in memory and in
\* data.json hold every date persisted before the start, and on the day of
\* the start also that day when the status load detected a publish.
C29_StartupKeepsHistory ==
    (pc = "running" /\ streakSavesPending = <<>> /\ settingsSaves = <<>>) =>
        \A held \in {streakData,
                      IF "streakData" \in DOMAIN dataFile
                      THEN dataFile.streakData ELSE EmptyStreak} :
            /\ \A i \in 1..Len(OldStreak.dates) : Includes(held.dates, OldStreak.dates[i])
            /\ \A i \in 1..Len(OldStreak.publishDates) :
                  Includes(held.publishDates, OldStreak.publishDates[i])
            /\ (now = StartTime /\ IF lastLoad = NULL THEN FALSE ELSE lastLoad.signal) =>
                  Includes(held.publishDates, Today)

\* last_publish of the snapshot most recently read by this plugin instance
LastPublishRead ==
    IF lastLoad = NULL THEN "<none>" ELSE lastLoad.read

\* C30: a status load that reads the same last_publish as the most recent
\* successfully read snapshot emits no publish signal, whatever loads failed
\* or found no file in between, and none is emitted for a null last_publish.
C30_SignalOncePerChange ==
    [][(LoadSucceeded /\ lastLoad'.signal) =>
          /\ dispatchStatus'.last_publish # NULL_SLUG
          /\ dispatchStatus'.last_publish # LastPublishRead
      ]_vars

====
